---- MODULE Spec2Model ----
(***************************************************************************)
(* The Nodex tunnel endpoint of src/src/vpn/NodexCrypto.ts: NodexCrypto    *)
(* (keyed digest), NodexProtocol (packet codec, byte reader, handshake)    *)
(* and NodexServer (listener, registry, notifications).                    *)
(*                                                                         *)
(* One step of the model is one turn of the Node.js event loop: an I/O     *)
(* callback (connection, data, close, error, write completion, timer)      *)
(* together with the promise continuations it resumes, which run before    *)
(* the next I/O callback.  Bytes are integers 0..255; buffers are          *)
(* sequences of bytes.                                                     *)
(*                                                                         *)
(* Not modelled: an 'error' event on a socket that has no 'error' listener *)
(* (the process ends) and the HTTP front end.                              *)
(***************************************************************************)
EXTENDS Integers, Sequences, FiniteSets, TLC

(***************************************************************************)
(* Bounds of the model.                                                    *)
(***************************************************************************)
MaxClients == 2        \* stream peers that may connect
maxConnections == 1    \* config.maxConnections, scaled down
MaxPeerSends == 2      \* packets one peer writes on its stream
MaxStarts == 2         \* keys drawn by initialize(): calls of start() that get that far
MaxTime == 1           \* ticks of the clock read by Date.now()
MaxDatagrams == 2      \* datagrams the datagram socket receives

Clients == 1..MaxClients

(***************************************************************************)
(* Program constants.                                                      *)
(***************************************************************************)
PROTOCOL_VERSION == 1
HEADER_SIZE == 16
SIGNATURE_SIZE == 32
MAX_PAYLOAD_SIZE == 65536
NullKey == 0           \* masterKey: Buffer | null = null

AUTH_REQUEST == 1
AUTH_RESPONSE == 2
TUNNEL_DATA == 3
KEEP_ALIVE == 4
DISCONNECT == 5
ERROR == 6

(***************************************************************************)
(* Buffers.                                                                *)
(***************************************************************************)
slice(buf, from, to) ==
  \* Buffer.slice(from, to): bytes at 0-based offsets from .. to-1
  [i \in 1..(IF to > from THEN to - from ELSE 0) |-> buf[from + i]]

writeUInt32BE(n) ==
  << (n \div 16777216) % 256, (n \div 65536) % 256, (n \div 256) % 256, n % 256 >>

readUInt32BE(buf, off) ==
  \* a value from 2^31 on reads as 2^31 - 1, the largest integer of TLC: the
  \* code only compares such a value with MAX_PAYLOAD_SIZE
  IF buf[off + 1] >= 128 THEN 2147483647
  ELSE buf[off + 1] * 16777216 + buf[off + 2] * 65536 + buf[off + 3] * 256 + buf[off + 4]

readUInt8(buf, off) == buf[off + 1]

Min(a, b) == IF a < b THEN a ELSE b

RECURSIVE includesAt(_, _, _)
includesAt(buf, pat, at) ==
  \* does pat occur in buf at 0-based offset at or later
  IF at + Len(pat) > Len(buf) THEN FALSE
  ELSE IF slice(buf, at, at + Len(pat)) = pat THEN TRUE
  ELSE includesAt(buf, pat, at + 1)

includes(buf, pat) == includesAt(buf, pat, 0)

RECURSIVE decimal(_)
decimal(n) ==
  \* the decimal digits of n as characters, as '' + n gives them
  IF n < 10 THEN << 48 + n >> ELSE decimal(n \div 10) \o << 48 + (n % 10) >>

(***************************************************************************)
(* NodexCrypto: the keyed digest.  HMAC-SHA256 is a library function; it   *)
(* is modelled as a keyed polynomial digest of the data expanded to        *)
(* SIGNATURE_SIZE bytes, which depends on the key and on every byte and    *)
(* the position of every byte of the data.                                 *)
(***************************************************************************)
RECURSIVE digestBlock(_, _, _, _)
digestBlock(h, data, i, to) ==
  \* h updated with data[i..to], byte by byte
  IF i > to \/ h < 0 THEN h
  ELSE digestBlock((h * 31 + data[i] + 1) % 65521, data, i + 1, to)

RECURSIVE digestRange(_, _, _, _, _)
digestRange(h, data, i, to, size) ==
  \* h updated with data[i..to], taken in blocks of size bytes, each block
  \* in blocks of size / HEADER_SIZE bytes (the blocks only bound the depth
  \* of the evaluation)
  IF i > to \/ h < 0 THEN h
  ELSE LET end == IF i + size - 1 < to THEN i + size - 1 ELSE to
       IN  digestRange(IF size <= HEADER_SIZE
                       THEN digestBlock(h, data, i, end)
                       ELSE digestRange(h, data, i, end, size \div HEADER_SIZE),
                       data, end + 1, to, size)

digest(h, data, i) ==
  \* h updated with data[i..]
  digestRange(h, data, i, Len(data), HEADER_SIZE * HEADER_SIZE * HEADER_SIZE)

HmacThrows == << >>     \* hmac throws "Clave HMAC requerida": no key

hmac(data, key) ==
  IF key = NullKey THEN HmacThrows
  ELSE LET d == digest(key, data, 1)
       IN  [i \in 1..SIGNATURE_SIZE |->
              IF i = 1 THEN d \div 256
              ELSE IF i = 2 THEN d % 256
              ELSE (d + i) % 256]

\* variant: receivePacket without the signature check
verifyHmac_unchecked(data, signature, key) == TRUE

verifyHmac(data, signature, key) ==
  LET expectedSignature == hmac(data, key)
  IN  /\ expectedSignature # HmacThrows
      \* timingSafeEqual throws on buffers of different length: caught, false
      /\ Len(signature) = Len(expectedSignature)
      /\ signature = expectedSignature

(***************************************************************************)
(* NodexCrypto.encrypt and decrypt.  createCipher derives the AES key and  *)
(* the counter block from masterKey alone; the random iv is only the       *)
(* associated data.  AES-GCM is a library function, modelled as a keyed    *)
(* byte substitution (the ciphertext is as long as the data) and a keyed   *)
(* digest of the associated data and the ciphertext as the tag.            *)
(***************************************************************************)
ivLength == 16
tagLength == 16

cipherByte(key, i, b) == (b + key * 11 + i) % 256

plainByte(key, i, b) == (b + 256 * 12 - key * 11 - i) % 256

getAuthTag(key, aad, encrypted) ==
  LET d == digest(key + 7, aad \o encrypted, 1)
  IN  [i \in 1..tagLength |->
         IF i = 1 THEN d \div 256 ELSE IF i = 2 THEN d % 256 ELSE (d + 3 * i) % 256]

\* createCipher(algorithm, password) takes no iv: the counter block GCM
\* runs with is derived from the password, here masterKey
cipherIv(key) == key

\* what encrypt and decrypt give: a buffer, or the exception thrown
Returned(data) == [ok |-> TRUE, data |-> data]
Thrown == [ok |-> FALSE, data |-> << >>]

encrypt(data, key, iv) ==
  IF key = NullKey THEN Thrown    \* 'Sistema de cifrado no inicializado'
  ELSE LET encrypted == [i \in 1..Len(data) |-> cipherByte(key, i, data[i])]
           tag == getAuthTag(key, iv, encrypted)
       IN  Returned(iv \o tag \o encrypted)

\* the tag lengths setAuthTag accepts for GCM
AuthTagLengths == {4, 8, 12, 13, 14, 15, 16}

\* variant: decrypt giving the bytes of update() when final() throws
decrypt_partial(encryptedData, key) ==
  IF key = NullKey THEN Thrown
  ELSE LET tag == slice(encryptedData, ivLength,
                        Min(ivLength + tagLength, Len(encryptedData)))
           encrypted == slice(encryptedData, ivLength + tagLength, Len(encryptedData))
       IN  IF Len(tag) \notin AuthTagLengths
           THEN Thrown
           ELSE Returned([i \in 1..Len(encrypted) |-> plainByte(key, i, encrypted[i])])

\* variant: decrypt reading the blob as [TAG][IV][ENCRYPTED_DATA]
decrypt_tagFirst(encryptedData, key) ==
  IF key = NullKey THEN Thrown
  ELSE LET tag == slice(encryptedData, 0, Min(tagLength, Len(encryptedData)))
           iv == slice(encryptedData, tagLength,
                       Min(tagLength + ivLength, Len(encryptedData)))
           encrypted == slice(encryptedData, ivLength + tagLength, Len(encryptedData))
           expected == getAuthTag(key, iv, encrypted)
       IN  IF Len(tag) \notin AuthTagLengths
           THEN Thrown
           ELSE IF tag # SubSeq(expected, 1, Len(tag))
           THEN Thrown
           ELSE Returned([i \in 1..Len(encrypted) |-> plainByte(key, i, encrypted[i])])

decrypt(encryptedData, key) ==
  IF key = NullKey THEN Thrown
  ELSE LET iv == slice(encryptedData, 0, Min(ivLength, Len(encryptedData)))
           tag == slice(encryptedData, ivLength,
                        Min(ivLength + tagLength, Len(encryptedData)))
           encrypted == slice(encryptedData, ivLength + tagLength, Len(encryptedData))
           expected == getAuthTag(key, iv, encrypted)
       IN  IF Len(tag) \notin AuthTagLengths     \* setAuthTag throws
           THEN Thrown
           ELSE IF tag # SubSeq(expected, 1, Len(tag))   \* final() throws
           THEN Thrown
           ELSE Returned([i \in 1..Len(encrypted) |-> plainByte(key, i, encrypted[i])])

(***************************************************************************)
(* NodexProtocol: packet layout.                                           *)
(***************************************************************************)
packetHeader(version, type, nowSeconds, length) ==
  \* Version(1) + Type(1) + Reserved(2) + Timestamp(4) + Length(4) + Reserved(4)
  << version, type, 0, 0 >> \o writeUInt32BE(nowSeconds)
     \o writeUInt32BE(length) \o << 0, 0, 0, 0 >>

createPacket(type, payload, nowMs, key) ==
  LET header == packetHeader(PROTOCOL_VERSION, type, nowMs \div 1000, Len(payload))
      dataToSign == header \o payload
      signature == hmac(dataToSign, key)
  IN  header \o payload \o signature

(***************************************************************************)
(* Handshake payloads: the UTF-8 bytes of the JSON texts.                  *)
(***************************************************************************)
Utf8Test == << 116, 101, 115, 116 >>                          \* test
Utf8Dev == << 100, 101, 118 >>                                \* dev
Utf8DevUser == << 100, 101, 118, 45, 117, 115, 101, 114, 45 >> \* dev-user-
Utf8User == << 117, 115, 101, 114, 45 >>                      \* user-

authResponseJson(userId) ==
  \* {"status":"success","userId":"<userId>","serverConfig":{"version":"1.0.0",
  \*  "features":["tunnel","encryption","compression"]}}
  << 123, 34, 115, 116, 97, 116, 117, 115, 34, 58, 34, 115, 117, 99, 99, 101,
     115, 115, 34, 44, 34, 117, 115, 101, 114, 73, 100, 34, 58, 34 >>
  \o userId \o
  << 34, 44, 34, 115, 101, 114, 118, 101, 114, 67, 111, 110, 102, 105, 103, 34,
     58, 123, 34, 118, 101, 114, 115, 105, 111, 110, 34, 58, 34, 49, 46, 48, 46,
     48, 34, 44, 34, 102, 101, 97, 116, 117, 114, 101, 115, 34, 58, 91, 34, 116,
     117, 110, 110, 101, 108, 34, 44, 34, 101, 110, 99, 114, 121, 112, 116, 105,
     111, 110, 34, 44, 34, 99, 111, 109, 112, 114, 101, 115, 115, 105, 111, 110,
     34, 93, 125, 125 >>

tunnelConfigJson ==
  \* {"clientIp":"10.0.0.2","serverIp":"10.0.0.1","dns":["8.8.8.8","8.8.4.4"],
  \*  "mtu":1420,"routes":["0.0.0.0/0"]}
  << 123, 34, 99, 108, 105, 101, 110, 116, 73, 112, 34, 58, 34, 49, 48, 46, 48,
     46, 48, 46, 50, 34, 44, 34, 115, 101, 114, 118, 101, 114, 73, 112, 34, 58,
     34, 49, 48, 46, 48, 46, 48, 46, 49, 34, 44, 34, 100, 110, 115, 34, 58, 91,
     34, 56, 46, 56, 46, 56, 46, 56, 34, 44, 34, 56, 46, 56, 46, 52, 46, 52, 34,
     93, 44, 34, 109, 116, 117, 34, 58, 49, 52, 50, 48, 44, 34, 114, 111, 117,
     116, 101, 115, 34, 58, 91, 34, 48, 46, 48, 46, 48, 46, 48, 47, 48, 34, 93,
     125 >>

Utf8AuthFailed ==
  \* Autenticación fallida
  << 65, 117, 116, 101, 110, 116, 105, 99, 97, 99, 105, 195, 179, 110, 32, 102,
     97, 108, 108, 105, 100, 97 >>

errorJson(message, nowMs) ==
  \* {"error":"<message>","timestamp":<nowMs>}
  << 123, 34, 101, 114, 114, 111, 114, 34, 58, 34 >> \o message
  \o << 34, 44, 34, 116, 105, 109, 101, 115, 116, 97, 109, 112, 34, 58 >>
  \o decimal(nowMs) \o << 125 >>

(***************************************************************************)
(* HandshakeResult values.                                                 *)
(***************************************************************************)
Success(userId) == [success |-> TRUE, userId |-> userId, error |-> ""]
Failure(message) == [success |-> FALSE, userId |-> << >>, error |-> message]

verifyAuthentication(payload, nowMs) ==
  IF includes(payload, Utf8Test) \/ includes(payload, Utf8Dev)
  THEN Success(Utf8DevUser \o decimal(nowMs))
  ELSE IF Len(payload) > 0
  THEN Success(Utf8User \o decimal(nowMs))
  ELSE Failure("Token inválido")

(***************************************************************************)
(* State.                                                                  *)
(***************************************************************************)
VARIABLES
  isRunning,          \* NodexServer.isRunning
  tcpServer,          \* "null", "binding" (listen called), "listening"
  udpSocket,          \* "null", "binding" (bind called), "bound"
  masterKey,          \* NodexCrypto.masterKey, NullKey before initialize()
  activeConnections,  \* the Map, as its entries in insertion order
  events,             \* what emit() has delivered, in order
  startPc,            \* where the start() in progress is suspended
  now,                \* the clock read by Date.now()
  conn,               \* per peer: its socket, its NodexProtocol, its handler
  tunnelData,         \* the calls of processTunnelData, in order
  udpLog,             \* history: how many datagrams were received, and
                      \* the last of them with what decrypt did
  cipherLog,          \* history: the calls of encrypt, and the last call of
                      \* decrypt on one of their blobs
  starts              \* a second caller of start(): where its call is
                      \* suspended or how it ended ("threw": at the
                      \* isRunning check, "failed": from the catch), and
                      \* the listener its call displaced from this.tcpServer

vars == << isRunning, tcpServer, udpSocket, masterKey, activeConnections,
           events, startPc, now, conn, tunnelData, udpLog, cipherLog, starts >>

serverVars == << isRunning, tcpServer, udpSocket, masterKey, startPc, starts >>

udpVars == << tunnelData, udpLog, cipherLog >>

NoReader == [stage |-> "none", count |-> 0, buffer |-> << >>, headerData |-> << >>]

readBytes(count, stage, headerData) ==
  \* a fresh buffer and the three listeners attached to the socket
  [stage |-> stage, count |-> count, buffer |-> << >>, headerData |-> headerData]

InitConn ==
  [ socket |-> "none",        \* "none", "open", "ended" (end() called),
                              \* "errored" (destroyed, close pending), "closed"
    net |-> << >>,            \* bytes the peer wrote, not yet delivered
    peerSends |-> 0,
    reader |-> NoReader,      \* the readBytes listeners attached, if any
    timer |-> FALSE,          \* the receivePacket timer is armed
    pc |-> "none",            \* where handleTcpConnection is suspended
    authResult |-> Failure(""),
    result |-> << >>,         \* what performHandshake returned, once it has
    out |-> << >>,            \* the buffers given to socket.write
    handlers |-> FALSE,       \* the close and error handlers of the server
    isAuthenticated |-> FALSE,
    userId |-> << >>,
    \* history, read by no action:
    peerLog |-> << >>,        \* the packets the peer wrote, with the key in force
                              \* and the position of the handshake at that time
    received |-> << >>,       \* the packets receivePacket gave to the handshake
    flipped |-> -1,           \* the bit flipped in the peer's packet, if any
    sized |-> -1,             \* the length of the payload given to sendPacket
    written |-> 0 ]           \* write callbacks that reported no error

NoDatagram == [clientId |-> 0, message |-> << >>, decrypt |-> "none"]

NoDecrypt == [index |-> 0, flip |-> -1, key |-> NullKey, result |-> Thrown]

Init ==
  /\ isRunning = FALSE
  /\ tcpServer = "null"
  /\ udpSocket = "null"
  /\ masterKey = NullKey
  /\ activeConnections = << >>
  /\ events = << >>
  /\ startPc = "idle"
  /\ now = 0
  /\ conn = [c \in Clients |-> InitConn]
  /\ tunnelData = << >>
  /\ udpLog = [count |-> 0, last |-> NoDatagram]
  /\ cipherLog = [sealed |-> << >>, opens |-> 0, opened |-> NoDecrypt]
  /\ starts = [second |-> "idle", displaced |-> "none"]

(***************************************************************************)
(* The registry: Map operations on the entry list.                         *)
(***************************************************************************)
mapHas(map, clientId) == \E i \in 1..Len(map) : map[i].clientId = clientId

mapGet(map, clientId) ==
  map[CHOOSE i \in 1..Len(map) : map[i].clientId = clientId]

mapSet(map, clientId, state) ==
  IF mapHas(map, clientId)
  THEN [i \in 1..Len(map) |-> IF map[i].clientId = clientId THEN state ELSE map[i]]
  ELSE Append(map, state)

mapDelete(map, clientId) ==
  SelectSeq(map, LAMBDA e : e.clientId # clientId)

mapSize(map) == Len(map)

World(k, map, evs) == [k |-> k, map |-> map, evs |-> evs]

\* EventEmitter.emit: the listeners run inside the call; seen is what
\* getActiveConnections() gives them, the registry as it is at the call
emit(evs, event, map) ==
  Append(evs, [event |-> event.event, clientId |-> event.clientId,
               userId |-> event.userId, reason |-> event.reason, seen |-> map])

\* the VpnConnectionEvent of a delivered notification
notice(e) ==
  [event |-> e.event, clientId |-> e.clientId, userId |-> e.userId, reason |-> e.reason]

\* variant: disconnectClient notifying without looking the client up
disconnectClient_always(w, clientId, reason) ==
  World(w.k,
        mapDelete(w.map, clientId),
        Append(w.evs, [event |-> "disconnected", clientId |-> clientId,
                       userId |-> IF mapHas(w.map, clientId)
                                  THEN mapGet(w.map, clientId).userId ELSE << >>,
                       reason |-> reason, seen |-> w.map]))

disconnectClient(w, clientId, reason) ==
  IF mapHas(w.map, clientId)
  THEN LET connection == [mapGet(w.map, clientId) EXCEPT !.connected = FALSE,
                                                          !.status = "disconnected"]
       IN  World(w.k,
                 mapDelete(w.map, clientId),
                 emit(w.evs, [event |-> "disconnected", clientId |-> clientId,
                              userId |-> connection.userId, reason |-> reason],
                      mapSet(w.map, clientId, connection)))
  ELSE w

(***************************************************************************)
(* NodexServer.handleTcpConnection, from the return of performHandshake.   *)
(***************************************************************************)
\* variant: the failure branch without socket.end()
socketEnd_noop(socket) == socket

socketEnd(socket) == IF socket = "open" THEN "ended" ELSE socket

connectionState(clientId, userId) ==
  [ clientId |-> clientId, userId |-> userId, connected |-> TRUE,
    status |-> "connected", connectedAt |-> now, lastActivity |-> now,
    bytesReceived |-> 0, bytesSent |-> 0 ]

\* variant: handleTcpConnection returning after the registration, before
\* it attaches the close and error handlers
handshakeReturned_unwatched(w, clientId, authResult) ==
  IF ~authResult.success
  THEN World([w.k EXCEPT !.result = << authResult >>, !.pc = "failed",
                         !.socket = socketEnd(@)],
             w.map, w.evs)
  ELSE World([w.k EXCEPT !.result = << authResult >>, !.pc = "established"],
             mapSet(w.map, clientId, connectionState(clientId, authResult.userId)),
             emit(w.evs, [event |-> "connected", clientId |-> clientId,
                        userId |-> authResult.userId, reason |-> ""],
             mapSet(w.map, clientId, connectionState(clientId, authResult.userId))))

\* variant: the failure branch of handleTcpConnection without its return
handshakeReturned_fallthrough(w, clientId, authResult) ==
  World([w.k EXCEPT !.result = << authResult >>,
                    !.pc = IF authResult.success THEN "established" ELSE "failed",
                    !.socket = IF authResult.success THEN @ ELSE socketEnd(@),
                    !.handlers = TRUE],
        mapSet(w.map, clientId, connectionState(clientId, authResult.userId)),
        emit(w.evs, [event |-> "connected", clientId |-> clientId,
                     userId |-> authResult.userId, reason |-> ""],
             mapSet(w.map, clientId, connectionState(clientId, authResult.userId))))

handshakeReturned(w, clientId, authResult) ==
  IF ~authResult.success
  THEN World([w.k EXCEPT !.result = << authResult >>, !.pc = "failed",
                         !.socket = socketEnd(@)],
             w.map, w.evs)
  ELSE World([w.k EXCEPT !.result = << authResult >>, !.pc = "established",
                         !.handlers = TRUE],
             mapSet(w.map, clientId, connectionState(clientId, authResult.userId)),
             emit(w.evs, [event |-> "connected", clientId |-> clientId,
                        userId |-> authResult.userId, reason |-> ""],
             mapSet(w.map, clientId, connectionState(clientId, authResult.userId))))

(***************************************************************************)
(* NodexProtocol.sendPacket and the three senders: the packet is handed to *)
(* socket.write and the handshake waits for the write callback at nextPc;  *)
(* a rejection is caught by performHandshake.                              *)
(***************************************************************************)
\* variant: sendPacket comparing with >= where the code compares with >
sendPacket_offByOne(w, clientId, type, payload, nextPc) ==
  IF Len(payload) >= MAX_PAYLOAD_SIZE
  THEN handshakeReturned(w, clientId, Failure("Payload demasiado grande"))
  ELSE IF masterKey = NullKey
  THEN handshakeReturned(w, clientId, Failure("Clave HMAC requerida"))
  ELSE World([w.k EXCEPT !.out = Append(@, createPacket(type, payload, now, masterKey)),
                         !.pc = nextPc],
             w.map, w.evs)

sendPacket(w, clientId, type, payload, nextPc) ==
  IF Len(payload) > MAX_PAYLOAD_SIZE
  THEN handshakeReturned(w, clientId, Failure("Payload demasiado grande"))
  ELSE IF masterKey = NullKey    \* createPacket throws in hmac
  THEN handshakeReturned(w, clientId, Failure("Clave HMAC requerida"))
  ELSE World([w.k EXCEPT !.out = Append(@, createPacket(type, payload, now, masterKey)),
                         !.pc = nextPc],
             w.map, w.evs)

sendTunnelConfig(w, clientId) ==
  sendPacket(w, clientId, TUNNEL_DATA, tunnelConfigJson, "sendTunnelConfig")

\* variant: performHandshake going from the credential straight to the
\* tunnel configuration
sendAuthResponse_skipped(w, clientId, userId) == sendTunnelConfig(w, clientId)

\* variant: performHandshake marking the client authenticated as soon as
\* the credential is accepted
sendAuthResponse_marking(w, clientId, userId) ==
  sendPacket(World([w.k EXCEPT !.isAuthenticated = TRUE, !.userId = userId],
                   w.map, w.evs),
             clientId, AUTH_RESPONSE, authResponseJson(userId), "sendAuthResponse")

sendAuthResponse(w, clientId, userId) ==
  sendPacket(w, clientId, AUTH_RESPONSE, authResponseJson(userId), "sendAuthResponse")

sendErrorResponse(w, clientId, message) ==
  sendPacket(w, clientId, ERROR, errorJson(message, now), "sendErrorResponse")

(***************************************************************************)
(* NodexProtocol.performHandshake, resumed when receivePacket settles.     *)
(* outcome is [ok |-> TRUE, packet |-> p] or [ok |-> FALSE, error |-> m].  *)
(* A promise that has already settled ignores a later resolve or reject.   *)
(***************************************************************************)
Resolved(packet, headerData) ==
  [ok |-> TRUE, packet |-> packet, headerData |-> headerData, error |-> ""]

Receipt(w, outcome) ==
  \* history: the handshake is handed outcome.packet, read under masterKey
  World([w.k EXCEPT !.received =
           Append(@, [packet |-> outcome.packet, headerData |-> outcome.headerData,
                      key |-> masterKey])],
        w.map, w.evs)

Rejected(message) ==
  [ok |-> FALSE,
   packet |-> [version |-> 0, type |-> 0, timestamp |-> 0, length |-> 0,
               payload |-> << >>, signature |-> << >>],
   headerData |-> << >>,
   error |-> message]

\* variant: performHandshake without its two packet type checks
receiveSettled_anyType(w, clientId, outcome) ==
  IF w.k.pc = "recvAuthRequest"
  THEN IF ~outcome.ok
       THEN handshakeReturned(w, clientId, Failure(outcome.error))
       ELSE LET authResult == verifyAuthentication(outcome.packet.payload, now)
                w1 == World([Receipt(w, outcome).k EXCEPT !.authResult = authResult],
                            w.map, w.evs)
            IN  IF ~authResult.success
                THEN sendErrorResponse(w1, clientId, Utf8AuthFailed)
                ELSE sendAuthResponse(w1, clientId, authResult.userId)
  ELSE IF w.k.pc = "recvClientReady"
  THEN IF ~outcome.ok
       THEN handshakeReturned(w, clientId, Failure(outcome.error))
       ELSE sendTunnelConfig(Receipt(w, outcome), clientId)
  ELSE w

\* variant: a receivePacket promise that settles again after the handshake
\* has returned
receiveSettled_late(w, clientId, outcome) ==
  IF ~outcome.ok
  THEN handshakeReturned(w, clientId, Failure(outcome.error))
  ELSE sendTunnelConfig(Receipt(w, outcome), clientId)

receiveSettled(w, clientId, outcome) ==
  IF w.k.pc = "recvAuthRequest"
  THEN IF ~outcome.ok
       THEN handshakeReturned(w, clientId, Failure(outcome.error))
       ELSE IF outcome.packet.type # AUTH_REQUEST
       THEN handshakeReturned(Receipt(w, outcome), clientId,
                              Failure("Esperaba AUTH_REQUEST"))
       ELSE LET authResult == verifyAuthentication(outcome.packet.payload, now)
                w1 == World([Receipt(w, outcome).k EXCEPT !.authResult = authResult],
                            w.map, w.evs)
            IN  IF ~authResult.success
                THEN sendErrorResponse(w1, clientId, Utf8AuthFailed)
                ELSE sendAuthResponse(w1, clientId, authResult.userId)
  ELSE IF w.k.pc = "recvClientReady"
  THEN IF ~outcome.ok
       THEN handshakeReturned(w, clientId, Failure(outcome.error))
       ELSE IF outcome.packet.type # TUNNEL_DATA
       THEN handshakeReturned(Receipt(w, outcome), clientId,
                              Failure("Esperaba confirmación del cliente"))
       ELSE sendTunnelConfig(Receipt(w, outcome), clientId)
  ELSE w

(***************************************************************************)
(* NodexProtocol.receivePacket: the two readBytes callbacks.  data is the  *)
(* filled buffer (never empty), or NullData on a socket error or close.    *)
(***************************************************************************)
NullData == << >>

\* variant: receivePacket without its timer
receivePacket_untimed(k) ==
  [k EXCEPT !.reader = readBytes(HEADER_SIZE, "header", << >>)]

receivePacket(k) ==
  \* the timer is armed and the header read is started
  [k EXCEPT !.timer = TRUE, !.reader = readBytes(HEADER_SIZE, "header", << >>)]

clearTimeout(w) == World([w.k EXCEPT !.timer = FALSE], w.map, w.evs)

\* variant: receivePacket without the version check of the header
headerCallback_anyVersion(w, clientId, headerData) ==
  IF headerData = NullData
  THEN receiveSettled(clearTimeout(w), clientId, Rejected("Error leyendo header"))
  ELSE LET length == readUInt32BE(headerData, 8)
       IN  IF length > MAX_PAYLOAD_SIZE
           THEN receiveSettled(clearTimeout(w), clientId,
                               Rejected("Payload demasiado grande"))
           ELSE World([w.k EXCEPT !.reader =
                         readBytes(length + SIGNATURE_SIZE, "payload", headerData)],
                      w.map, w.evs)

headerCallback(w, clientId, headerData) ==
  IF headerData = NullData
  THEN receiveSettled(clearTimeout(w), clientId, Rejected("Error leyendo header"))
  ELSE LET version == readUInt8(headerData, 0)
           length == readUInt32BE(headerData, 8)
       IN  IF version # PROTOCOL_VERSION
           THEN receiveSettled(clearTimeout(w), clientId,
                               Rejected("Versión de protocolo incompatible"))
           ELSE IF length > MAX_PAYLOAD_SIZE
           THEN receiveSettled(clearTimeout(w), clientId,
                               Rejected("Payload demasiado grande"))
           ELSE World([w.k EXCEPT !.reader =
                         readBytes(length + SIGNATURE_SIZE, "payload", headerData)],
                      w.map, w.evs)

payloadCallback(w, clientId, headerData, payloadAndSig) ==
  IF payloadAndSig = NullData
  THEN receiveSettled(clearTimeout(w), clientId, Rejected("Error leyendo payload"))
  ELSE LET version == readUInt8(headerData, 0)
           type == readUInt8(headerData, 1)
           timestamp == readUInt32BE(headerData, 4)
           length == readUInt32BE(headerData, 8)
           payload == slice(payloadAndSig, 0, length)
           signature == slice(payloadAndSig, length, Len(payloadAndSig))
           dataToVerify == headerData \o payload
       IN  IF ~verifyHmac(dataToVerify, signature, masterKey)
           THEN receiveSettled(clearTimeout(w), clientId,
                               Rejected("Firma de paquete inválida"))
           ELSE receiveSettled(clearTimeout(w), clientId,
                  Resolved([version |-> version, type |-> type,
                            timestamp |-> timestamp, length |-> length,
                            payload |-> payload, signature |-> signature],
                           headerData))

readerCallback(w, clientId, reader, data) ==
  \* the callback given to readBytes, run with its listeners already removed
  IF reader.stage = "header"
  THEN headerCallback(w, clientId, data)
  ELSE payloadCallback(w, clientId, reader.headerData, data)

(***************************************************************************)
(* NodexProtocol.readBytes: the data listener.                             *)
(***************************************************************************)
onData(w, clientId, chunk) ==
  LET reader == w.k.reader
      bytesToCopy == Min(Len(chunk), reader.count - Len(reader.buffer))
      buffer == reader.buffer \o SubSeq(chunk, 1, bytesToCopy)
  IN  IF Len(buffer) >= reader.count
      THEN readerCallback(World([w.k EXCEPT !.reader = NoReader], w.map, w.evs),
                          clientId, reader, buffer)
      ELSE World([w.k EXCEPT !.reader.buffer = buffer], w.map, w.evs)

\* variant: onError and onClose giving the callback the buffer as filled so
\* far (Buffer.alloc(count) with the bytes read) where the code gives null
onErrorOrClose_partial(w, clientId) ==
  readerCallback(World([w.k EXCEPT !.reader = NoReader], w.map, w.evs),
                 clientId, w.k.reader,
                 [i \in 1..w.k.reader.count |->
                    IF i <= Len(w.k.reader.buffer) THEN w.k.reader.buffer[i] ELSE 0])

onErrorOrClose(w, clientId) ==
  \* onError and onClose: the data listener is removed and the callback
  \* gets null
  readerCallback(World([w.k EXCEPT !.reader = NoReader], w.map, w.evs),
                 clientId, w.k.reader, NullData)

(***************************************************************************)
(* The peers: what they write and how the stream delivers it.              *)
(***************************************************************************)
Credential == << 120 >>      \* a one-character token

PeerPackets ==
  { [version |-> PROTOCOL_VERSION, type |-> AUTH_REQUEST, payload |-> Credential, signed |-> TRUE],
    [version |-> PROTOCOL_VERSION, type |-> AUTH_REQUEST, payload |-> << >>, signed |-> TRUE],
    [version |-> PROTOCOL_VERSION, type |-> AUTH_REQUEST, payload |-> Credential, signed |-> FALSE],
    [version |-> PROTOCOL_VERSION, type |-> TUNNEL_DATA, payload |-> << >>, signed |-> TRUE],
    [version |-> PROTOCOL_VERSION, type |-> TUNNEL_DATA, payload |-> << >>, signed |-> FALSE],
    [version |-> PROTOCOL_VERSION, type |-> KEEP_ALIVE, payload |-> << >>, signed |-> TRUE],
    [version |-> PROTOCOL_VERSION + 1, type |-> AUTH_REQUEST, payload |-> Credential, signed |-> TRUE] }

\* what a peer may write next: anything at any time, or what a peer that
\* follows the protocol writes (a credential to the waiting handshake, then
\* the acknowledgement once the handshake waits for it)
AnyPeer(c) == PeerPackets

ProtocolPeer(c) ==
  { p \in PeerPackets :
      /\ p.signed /\ p.version = PROTOCOL_VERSION
      /\ \/ /\ conn[c].peerSends = 0
            /\ conn[c].pc \in {"recvAuthRequest", "rejected"}
            /\ p.type = AUTH_REQUEST
         \/ conn[c].peerSends = 1 /\ conn[c].pc = "recvClientReady" /\ p.type = TUNNEL_DATA }

peerBytes(p, key) ==
  \* the peer encodes as createPacket does; an unsigned packet carries a
  \* tag that differs from the digest in its first byte
  LET header == packetHeader(p.version, p.type, now \div 1000, Len(p.payload))
      tag == hmac(header \o p.payload, key)
  IN  header \o p.payload
        \o (IF p.signed THEN tag ELSE [tag EXCEPT ![1] = (@ + 1) % 256])

ChunkSizes == { HEADER_SIZE \div 2, HEADER_SIZE, SIGNATURE_SIZE }

Apply(c, w) ==
  /\ conn' = [conn EXCEPT ![c] = w.k]
  /\ activeConnections' = w.map
  /\ events' = w.evs

Here(c) == World(conn[c], activeConnections, events)

PeerSend(c, p) ==
  /\ conn[c].socket \in {"open", "ended"}
  /\ conn[c].peerSends < MaxPeerSends
  /\ conn' = [conn EXCEPT ![c].net = @ \o peerBytes(p, masterKey),
                          ![c].peerSends = @ + 1,
                          ![c].peerLog = Append(@, [packet |-> p, key |-> masterKey,
                                                    pc |-> conn[c].pc])]
  /\ UNCHANGED << serverVars, activeConnections, events, now, udpVars >>

Deliver(c, n) ==
  \* a 'data' event carrying the next n bytes; with no data listener
  \* attached the flowing stream discards them
  /\ conn[c].socket \in {"open", "ended"}
  /\ n \in 1..Len(conn[c].net)
  /\ LET chunk == SubSeq(conn[c].net, 1, n)
         k == [conn[c] EXCEPT !.net = SubSeq(@, n + 1, Len(@))]
         w == World(k, activeConnections, events)
     IN  IF k.reader.stage = "none"
         THEN Apply(c, w)
         ELSE Apply(c, onData(w, c, chunk))
  /\ UNCHANGED << serverVars, now, udpVars >>

(***************************************************************************)
(* NodexServer.handleTcpConnection up to its first suspension.             *)
(***************************************************************************)
\* a listener of the server accepts: the one this.tcpServer refers to or
\* one that a later createServer displaced from it, which still calls
\* handleTcpConnection
Listening == tcpServer = "listening" \/ starts.displaced = "listening"

\* variant: handleTcpConnection without the capacity check
Accept_unchecked(c) ==
  /\ Listening
  /\ conn[c].socket = "none"
  /\ conn' = [conn EXCEPT ![c] =
                receivePacket([@ EXCEPT !.socket = "open", !.pc = "recvAuthRequest"])]
  /\ UNCHANGED << serverVars, activeConnections, events, now, udpVars >>

Accept(c) ==
  /\ Listening
  /\ conn[c].socket = "none"
  /\ IF mapSize(activeConnections) >= maxConnections
     THEN conn' = [conn EXCEPT ![c].socket = "ended", ![c].pc = "rejected"]
     ELSE conn' = [conn EXCEPT ![c] =
                     receivePacket([@ EXCEPT !.socket = "open",
                                             !.pc = "recvAuthRequest"])]
  /\ UNCHANGED << serverVars, activeConnections, events, now, udpVars >>

Timeout(c) ==
  \* the 30000 ms timer of receivePacket fires; the listeners stay attached
  /\ conn[c].timer
  /\ Apply(c, receiveSettled(clearTimeout(Here(c)), c,
                             Rejected("Timeout recibiendo paquete")))
  /\ UNCHANGED << serverVars, now, udpVars >>

SendStates == {"sendErrorResponse", "sendAuthResponse", "sendTunnelConfig"}

WriteOk(c) ==
  \* the write callback without an error
  /\ conn[c].pc \in SendStates
  /\ conn[c].socket = "open"
  /\ LET k == [conn[c] EXCEPT !.written = @ + 1]
     IN  IF k.pc = "sendErrorResponse"
         THEN Apply(c, handshakeReturned(World(k, activeConnections, events), c,
                                         k.authResult))
         ELSE IF k.pc = "sendAuthResponse"
         THEN Apply(c, World(receivePacket([k EXCEPT !.pc = "recvClientReady"]),
                             activeConnections, events))
         ELSE Apply(c, handshakeReturned(
                         World([k EXCEPT !.isAuthenticated = TRUE,
                                         !.userId = k.authResult.userId],
                               activeConnections, events),
                         c, Success(k.authResult.userId)))
  /\ UNCHANGED << serverVars, now, udpVars >>

WriteFail(c) ==
  \* the write callback with an error: the socket was destroyed first
  /\ conn[c].pc \in SendStates
  /\ conn[c].socket \in {"errored", "closed"}
  /\ Apply(c, handshakeReturned(Here(c), c, Failure("write error")))
  /\ UNCHANGED << serverVars, now, udpVars >>

(***************************************************************************)
(* Socket events.                                                          *)
(***************************************************************************)
SockError(c) ==
  \* 'error': the socket is destroyed, undelivered bytes are dropped
  /\ conn[c].socket \in {"open", "ended"}
  /\ LET k == [conn[c] EXCEPT !.socket = "errored", !.net = << >>]
         w0 == World(k, activeConnections, events)
         w1 == IF k.reader.stage # "none" THEN onErrorOrClose(w0, c) ELSE w0
         w2 == IF w1.k.handlers THEN disconnectClient(w1, c, "Socket error") ELSE w1
     IN  Apply(c, w2)
  /\ UNCHANGED << serverVars, now, udpVars >>

SockClose(c) ==
  \* 'close': after an error, or once the peer has closed a stream whose
  \* bytes have all been delivered
  /\ \/ conn[c].socket = "errored"
     \/ conn[c].socket \in {"open", "ended"} /\ conn[c].net = << >>
  /\ LET k == [conn[c] EXCEPT !.socket = "closed"]
         w0 == World(k, activeConnections, events)
         w1 == IF k.reader.stage # "none" THEN onErrorOrClose(w0, c) ELSE w0
         w2 == IF w1.k.handlers THEN disconnectClient(w1, c, "Client disconnected") ELSE w1
     IN  Apply(c, w2)
  /\ UNCHANGED << serverVars, now, udpVars >>

(***************************************************************************)
(* NodexServer.handleUdpMessage: a 'message' event of the datagram socket. *)
(* The sender address:port is the clientId looked up in the registry.      *)
(***************************************************************************)
Plain == << 7, 8 >>                       \* a tunnel payload
Iv == [i \in 1..ivLength |-> i]           \* the iv its sender drew

DatagramKinds == {"sealed", "tampered", "foreign", "short"}

datagramBytes(kind, key) ==
  LET sealed == encrypt(Plain, key, Iv).data
  IN  IF kind = "sealed" THEN sealed
      ELSE IF kind = "tampered"      \* one byte of the ciphertext altered
      THEN [sealed EXCEPT ![Len(sealed)] = (@ + 1) % 256]
      ELSE IF kind = "foreign"       \* sealed under another key
      THEN encrypt(Plain, key + 1, Iv).data
      ELSE << 1, 2, 3 >>

processTunnelData(sink, clientId, data) ==
  Append(sink, [clientId |-> clientId, data |-> data])

\* variant: handleUdpMessage without the registry lookup guarding decrypt
handleUdpMessage_unchecked(map, sink, clientId, message, key) ==
  LET decryptedData == decrypt(message, key)
  IN  IF ~decryptedData.ok
      THEN [map |-> map, sink |-> sink, decrypt |-> "threw"]
      ELSE [map |-> map, sink |-> processTunnelData(sink, clientId, decryptedData.data),
            decrypt |-> "returned"]

\* variant: handleUdpMessage updating the statistics before it decrypts
handleUdpMessage_countsFirst(map, sink, clientId, message, key) ==
  IF ~mapHas(map, clientId)
  THEN [map |-> map, sink |-> sink, decrypt |-> "none"]
  ELSE LET connection == mapGet(map, clientId)
           counted == mapSet(map, clientId,
                             [connection EXCEPT !.bytesReceived = @ + Len(message),
                                                !.lastActivity = now])
           decryptedData == decrypt(message, key)
       IN  IF ~decryptedData.ok
           THEN [map |-> counted, sink |-> sink, decrypt |-> "threw"]
           ELSE [map |-> counted,
                 sink |-> processTunnelData(sink, clientId, decryptedData.data),
                 decrypt |-> "returned"]

\* variant: handleUdpMessage crediting the bytes to the first registry entry
handleUdpMessage_firstEntry(map, sink, clientId, message, key) ==
  IF ~mapHas(map, clientId)
  THEN [map |-> map, sink |-> sink, decrypt |-> "none"]
  ELSE LET connection == map[1]
           decryptedData == decrypt(message, key)
       IN  IF ~decryptedData.ok
           THEN [map |-> map, sink |-> sink, decrypt |-> "threw"]
           ELSE [map |-> mapSet(map, connection.clientId,
                                [connection EXCEPT !.bytesReceived = @ + Len(message),
                                                   !.lastActivity = now]),
                 sink |-> processTunnelData(sink, clientId, decryptedData.data),
                 decrypt |-> "returned"]

handleUdpMessage(map, sink, clientId, message, key) ==
  \* gives the registry, the sink and what decrypt did ("none": not called)
  IF ~mapHas(map, clientId)
  THEN [map |-> map, sink |-> sink, decrypt |-> "none"]
  ELSE LET connection == mapGet(map, clientId)
           decryptedData == decrypt(message, key)
       IN  IF ~decryptedData.ok
           THEN [map |-> map, sink |-> sink, decrypt |-> "threw"]
           ELSE [map |-> mapSet(map, clientId,
                                [connection EXCEPT !.bytesReceived = @ + Len(message),
                                                   !.lastActivity = now]),
                 sink |-> processTunnelData(sink, clientId, decryptedData.data),
                 decrypt |-> "returned"]

UdpMessage(sender, kind) ==
  /\ udpSocket = "bound"
  /\ udpLog.count < MaxDatagrams
  /\ LET message == datagramBytes(kind, masterKey)
         r == handleUdpMessage(activeConnections, tunnelData, sender, message, masterKey)
     IN  /\ activeConnections' = r.map
         /\ tunnelData' = r.sink
         /\ udpLog' = [count |-> udpLog.count + 1,
                       last |-> [clientId |-> sender, message |-> message,
                                 decrypt |-> r.decrypt]]
  /\ UNCHANGED << serverVars, events, now, conn, cipherLog >>

(***************************************************************************)
(* NodexServer.start and stop.                                             *)
(***************************************************************************)
\* variant: stop() clearing the registry without the notifications
disconnectAll_silent(w, reason) == World(w.k, << >>, w.evs)

RECURSIVE disconnectAll(_, _)
disconnectAll(w, reason) ==
  \* for (const [clientId, connection] of this.activeConnections)
  IF w.map = << >> THEN w
  ELSE disconnectAll(disconnectClient(w, w.map[1].clientId, reason), reason)

stop ==
  /\ isRunning' = FALSE
  /\ LET w == disconnectAll(World(conn, activeConnections, events), "Server shutdown")
     IN  activeConnections' = w.map /\ events' = w.evs
  /\ tcpServer' = "null"
  /\ udpSocket' = "null"

Stop ==
  \* stop() called while no start() is suspended
  /\ startPc = "idle" /\ starts.second # "startTcpServer"
  /\ stop
  /\ UNCHANGED << masterKey, startPc, starts, now, conn, udpVars >>

StartCall ==
  \* start() called while no start() is suspended
  /\ startPc = "idle" /\ starts.second # "startTcpServer"
  /\ IF isRunning
     THEN \* throws 'El servidor ya está en ejecución'
          UNCHANGED << isRunning, tcpServer, udpSocket, masterKey, startPc, starts >>
     ELSE \* crypto.initialize() draws a fresh key; startTcpServer calls listen
          /\ masterKey < MaxStarts
          /\ starts.displaced = "none"
          /\ masterKey' = masterKey + 1
          /\ tcpServer' = "binding"
          /\ startPc' = "startTcpServer"
          /\ UNCHANGED << isRunning, udpSocket, starts >>
  /\ UNCHANGED << activeConnections, events, now, conn, udpVars >>

ListenOk ==
  \* the listen callback of the listener this start() created, which is
  \* this.tcpServer unless a second start() has replaced it;
  \* startUdpServer calls bind
  /\ startPc = "startTcpServer"
  /\ IF starts.displaced = "none"
     THEN tcpServer' = "listening" /\ starts' = starts
     ELSE tcpServer' = tcpServer /\ starts' = [starts EXCEPT !.displaced = "listening"]
  /\ udpSocket' = "binding"
  /\ startPc' = "startUdpServer"
  /\ UNCHANGED << isRunning, masterKey, activeConnections, events, now, conn, udpVars >>

ListenError ==
  \* 'error' on the listener: start() catches, calls stop() and rethrows
  /\ startPc = "startTcpServer"
  /\ stop
  /\ startPc' = "idle"
  /\ starts' = [starts EXCEPT !.displaced = "none"]
  /\ UNCHANGED << masterKey, now, conn, udpVars >>

BindOk ==
  \* the bind callback; it is not called for a socket closed meanwhile
  /\ startPc = "startUdpServer"
  /\ udpSocket = "binding"
  /\ udpSocket' = "bound"
  /\ isRunning' = TRUE
  /\ startPc' = "idle"
  /\ UNCHANGED << tcpServer, masterKey, starts, activeConnections, events, now,
                  conn, udpVars >>

BindError ==
  /\ startPc = "startUdpServer"
  /\ udpSocket = "binding"
  /\ stop
  /\ startPc' = "idle"
  /\ UNCHANGED << masterKey, starts, now, conn, udpVars >>

InitializeError ==
  \* start() on a server not running, with crypto.initialize() throwing:
  \* start() catches, calls stop() and rethrows
  /\ startPc = "idle" /\ starts.second # "startTcpServer"
  /\ ~isRunning
  /\ stop
  /\ UNCHANGED << masterKey, startPc, starts, now, conn, udpVars >>

\* variant: start() without its isRunning check
SecondStartCall_unchecked ==
  /\ starts.second # "startTcpServer"
  /\ masterKey < MaxStarts
  /\ starts.displaced = "none"
  /\ masterKey' = masterKey + 1
  /\ tcpServer' = "binding"
  /\ starts' = [starts EXCEPT !.second = "startTcpServer", !.displaced = tcpServer]
  /\ UNCHANGED << isRunning, udpSocket, startPc, activeConnections, events, now,
                  conn, udpVars >>

SecondStartCall ==
  \* start() called by a second caller, on a running server or while the
  \* start() of the first is suspended at its listen or its bind
  /\ starts.second # "startTcpServer"
  /\ IF isRunning
     THEN \* throws 'El servidor ya está en ejecución'
          /\ starts' = [starts EXCEPT !.second = "threw"]
          /\ UNCHANGED << isRunning, tcpServer, udpSocket, masterKey >>
     ELSE \* isRunning is still false: crypto.initialize() draws another
          \* key and createServer replaces this.tcpServer
          /\ startPc # "idle"
          /\ masterKey < MaxStarts
          /\ starts.displaced = "none"
          /\ masterKey' = masterKey + 1
          /\ tcpServer' = "binding"
          /\ starts' = [starts EXCEPT !.second = "startTcpServer",
                                      !.displaced = tcpServer]
          /\ UNCHANGED << isRunning, udpSocket >>
  /\ UNCHANGED << startPc, activeConnections, events, now, conn, udpVars >>

SecondListenError ==
  \* 'error' on the second listener, whose port the first holds: the
  \* second start() catches, calls stop() and rethrows
  /\ starts.second = "startTcpServer"
  /\ stop
  /\ starts' = [starts EXCEPT !.second = "failed"]
  /\ UNCHANGED << masterKey, startPc, now, conn, udpVars >>

Tick ==
  /\ now < MaxTime
  /\ now' = now + 1
  /\ UNCHANGED << serverVars, activeConnections, events, conn, udpVars >>

(***************************************************************************)
(* Specifications.                                                         *)
(***************************************************************************)
\* the bytes the pending read still asks for, or all in flight when no
\* read is pending
AlignedSizes(c) ==
  IF conn[c].reader.stage = "none"
  THEN {Len(conn[c].net)}
  ELSE {conn[c].reader.count - Len(conn[c].reader.buffer)}

\* any of the chunk sizes, or all in flight
AnySizes(c) == ChunkSizes \cup {Len(conn[c].net)}

\* the server with all its peers, each following the protocol on a stream
\* that delivers what the reads ask for, with the clock standing still
Next ==
  \/ StartCall
  \/ ListenOk
  \/ ListenError
  \/ BindOk
  \/ BindError
  \/ Stop
  \/ \E c \in Clients : Accept(c)
  \/ \E c \in Clients : \E p \in ProtocolPeer(c) : PeerSend(c, p)
  \/ \E c \in Clients : \E n \in AlignedSizes(c) : Deliver(c, n)
  \/ \E c \in Clients : Timeout(c)
  \/ \E c \in Clients : WriteOk(c)
  \/ \E c \in Clients : WriteFail(c)
  \/ \E c \in Clients : SockError(c)
  \/ \E c \in Clients : SockClose(c)

Spec == Init /\ [][Next]_vars

\* one peer writing anything on a stream that delivers in any chunk sizes
HandshakeNext ==
  \/ StartCall
  \/ ListenOk
  \/ ListenError
  \/ BindOk
  \/ BindError
  \/ Stop
  \/ Tick
  \/ Accept(1)
  \/ \E p \in AnyPeer(1) : PeerSend(1, p)
  \/ \E n \in AnySizes(1) : Deliver(1, n)
  \/ Timeout(1)
  \/ WriteOk(1)
  \/ WriteFail(1)
  \/ SockError(1)
  \/ SockClose(1)

Handshake == Init /\ [][HandshakeNext]_vars

\* the server, its peers completing their handshakes on streams that only
\* close, and the datagrams of any sender
TunnelNext ==
  \/ StartCall
  \/ ListenOk
  \/ BindOk
  \/ Tick
  \/ \E c \in Clients : Accept(c)
  \/ \E c \in Clients : \E p \in ProtocolPeer(c) : PeerSend(c, p)
  \/ \E c \in Clients : \E n \in AlignedSizes(c) : Deliver(c, n)
  \/ \E c \in Clients : WriteOk(c)
  \/ \E c \in Clients : SockClose(c)
  \/ \E c \in Clients : \E kind \in DatagramKinds : UdpMessage(c, kind)

Tunnel == Init /\ [][TunnelNext]_vars

(***************************************************************************)
(* The codec alone: one sender that encodes with createPacket, as          *)
(* sendPacket does, any packet type with any of the payloads below, on a   *)
(* stream read by receivePacket under the same key.                        *)
(***************************************************************************)
MaxPayloadLen == 2     \* length of the payloads encoded

PacketTypes == {AUTH_REQUEST, AUTH_RESPONSE, TUNNEL_DATA, KEEP_ALIVE, DISCONNECT, ERROR}

PayloadBytes == {0, 255}

Payloads ==
  UNION { [1..n -> PayloadBytes] : n \in 0..MaxPayloadLen }

Encode(c, type, payload) ==
  \* socket.write(createPacket(type, payload)) at the far end of the stream
  /\ conn[c].pc = "recvAuthRequest"
  /\ conn[c].peerSends = 0
  /\ Len(payload) <= MAX_PAYLOAD_SIZE
  /\ masterKey # NullKey
  /\ conn' = [conn EXCEPT
                ![c].net = @ \o createPacket(type, payload, now, masterKey),
                ![c].peerSends = @ + 1,
                ![c].peerLog = Append(@, [packet |-> [version |-> PROTOCOL_VERSION,
                                                      type |-> type,
                                                      payload |-> payload,
                                                      signed |-> TRUE],
                                          key |-> masterKey,
                                          pc |-> conn[c].pc])]
  /\ UNCHANGED << serverVars, activeConnections, events, now, udpVars >>

CodecNext ==
  \/ StartCall
  \/ ListenOk
  \/ BindOk
  \/ Tick
  \/ Accept(1)
  \/ \E type \in PacketTypes : \E payload \in Payloads : Encode(1, type, payload)
  \/ \E n \in AnySizes(1) : Deliver(1, n)

Codec == Init /\ [][CodecNext]_vars

(***************************************************************************)
(* The codec with a sender whose packet has one bit flipped on the way.    *)
(***************************************************************************)
MaxFlipLen == 1        \* length of the payloads of the packets altered

\* buf with bit number bit flipped, bit 0 being the lowest bit of byte 0
flipBit(buf, bit) ==
  [buf EXCEPT ![bit \div 8 + 1] =
     IF (@ \div 2^(bit % 8)) % 2 = 1 THEN @ - 2^(bit % 8) ELSE @ + 2^(bit % 8)]

EncodeFlipped(c, type, payload, bit) ==
  \* createPacket(type, payload), one bit of its header or payload flipped
  /\ conn[c].pc = "recvAuthRequest"
  /\ conn[c].peerSends = 0
  /\ masterKey # NullKey
  /\ bit \in 0..(8 * (HEADER_SIZE + Len(payload)) - 1)
  /\ conn' = [conn EXCEPT
                ![c].net = @ \o flipBit(createPacket(type, payload, now, masterKey), bit),
                ![c].peerSends = @ + 1,
                ![c].flipped = bit,
                ![c].peerLog = Append(@, [packet |-> [version |-> PROTOCOL_VERSION,
                                                      type |-> type,
                                                      payload |-> payload,
                                                      signed |-> TRUE],
                                          key |-> masterKey,
                                          pc |-> conn[c].pc])]
  /\ UNCHANGED << serverVars, activeConnections, events, now, udpVars >>

TamperNext ==
  \/ StartCall
  \/ ListenOk
  \/ BindOk
  \/ Accept(1)
  \/ \E type \in PacketTypes :
       \E payload \in { p \in Payloads : Len(p) <= MaxFlipLen } :
         \E bit \in 0..(8 * (HEADER_SIZE + MaxFlipLen) - 1) :
           EncodeFlipped(1, type, payload, bit)
  \/ \E n \in AnySizes(1) : Deliver(1, n)

Tamper == Init /\ [][TamperNext]_vars

(***************************************************************************)
(* NodexCrypto alone: encrypt called with any of the plaintexts below,     *)
(* randomBytes giving any of the ivs, and decrypt called on a blob that    *)
(* encrypt returned, as it is or with one bit flipped.                     *)
(***************************************************************************)
MaxSeals == 2          \* calls of encrypt
MaxOpens == 1          \* calls of decrypt

Plains == { << >>, << 0 >>, << 255, 0 >> }

Ivs == { Iv, [i \in 1..ivLength |-> 255 - i] }

Encrypt(data, iv) ==
  /\ Len(cipherLog.sealed) < MaxSeals
  /\ LET r == encrypt(data, masterKey, iv)
     IN  cipherLog' =
           IF r.ok
           THEN [cipherLog EXCEPT
                   !.sealed = Append(@, [data |-> data, iv |-> iv, key |-> masterKey,
                                         nonce |-> cipherIv(masterKey),
                                         blob |-> r.data])]
           ELSE cipherLog       \* 'Sistema de cifrado no inicializado'
  /\ UNCHANGED << serverVars, activeConnections, events, now, conn, tunnelData, udpLog >>

Decrypt(index, bit) ==
  /\ cipherLog.opens < MaxOpens
  /\ index \in 1..Len(cipherLog.sealed)
  /\ bit \in -1..(8 * Len(cipherLog.sealed[index].blob) - 1)
  /\ LET blob == cipherLog.sealed[index].blob
         encryptedData == IF bit < 0 THEN blob ELSE flipBit(blob, bit)
     IN  cipherLog' = [cipherLog EXCEPT
                         !.opens = @ + 1,
                         !.opened = [index |-> index, flip |-> bit, key |-> masterKey,
                                     result |-> decrypt(encryptedData, masterKey)]]
  /\ UNCHANGED << serverVars, activeConnections, events, now, conn, tunnelData, udpLog >>

CipherNext ==
  \/ StartCall
  \/ ListenOk
  \/ BindOk
  \/ \E data \in Plains : \E iv \in Ivs : Encrypt(data, iv)
  \/ \E index \in 1..MaxSeals :
       \E bit \in -1..(8 * (ivLength + tagLength + 2) - 1) : Decrypt(index, bit)

Cipher == Init /\ [][CipherNext]_vars

(***************************************************************************)
(* A peer that does not wait: it writes its credential and then, at any    *)
(* time, its acknowledgement, on a stream that delivers what the reads ask *)
(* for.                                                                    *)
(***************************************************************************)
PipeliningPeer(c) ==
  { p \in PeerPackets :
      /\ p.signed /\ p.version = PROTOCOL_VERSION
      /\ \/ /\ conn[c].peerSends = 0 /\ conn[c].pc = "recvAuthRequest"
            /\ p.type = AUTH_REQUEST /\ p.payload = Credential
         \/ conn[c].peerSends = 1 /\ p.type = TUNNEL_DATA }

PipelinedNext ==
  \/ StartCall
  \/ ListenOk
  \/ BindOk
  \/ Tick
  \/ Accept(1)
  \/ \E p \in PipeliningPeer(1) : PeerSend(1, p)
  \/ \E n \in AlignedSizes(1) : Deliver(1, n)
  \/ WriteOk(1)

Pipelined == Init /\ [][PipelinedNext]_vars

(***************************************************************************)
(* Two callers of start() and stop(), whose calls of start() may overlap,  *)
(* with peers that follow the protocol on streams that only close.         *)
(***************************************************************************)
StartsNext ==
  \/ StartCall
  \/ InitializeError
  \/ ListenOk
  \/ ListenError
  \/ BindOk
  \/ BindError
  \/ SecondStartCall
  \/ SecondListenError
  \/ Stop
  \/ \E c \in Clients : Accept(c)
  \/ \E c \in Clients : \E p \in ProtocolPeer(c) : PeerSend(c, p)
  \/ \E c \in Clients : \E n \in AlignedSizes(c) : Deliver(c, n)
  \/ \E c \in Clients : WriteOk(c)
  \/ \E c \in Clients : SockClose(c)

Starts == Init /\ [][StartsNext]_vars

(***************************************************************************)
(* One handshake with its timers firing and its write callbacks delivered: *)
(* the peer may write anything or nothing, and the stream may fail or      *)
(* close at any time.                                                      *)
(***************************************************************************)
LiveNext ==
  \/ StartCall
  \/ ListenOk
  \/ BindOk
  \/ Accept(1)
  \/ \E p \in AnyPeer(1) : PeerSend(1, p)
  \/ \E n \in AlignedSizes(1) : Deliver(1, n)
  \/ Timeout(1)
  \/ WriteOk(1)
  \/ WriteFail(1)
  \/ SockError(1)
  \/ SockClose(1)

Live ==
  /\ Init /\ [][LiveNext]_vars
  /\ WF_vars(Timeout(1))
  /\ WF_vars(WriteOk(1))
  /\ WF_vars(WriteFail(1))

(***************************************************************************)
(* The size limit: sendPacket called with payloads around MAX_PAYLOAD_SIZE *)
(* and receivePacket reading packets that declare such lengths.            *)
(***************************************************************************)
PayloadSizes ==
  {0, MAX_PAYLOAD_SIZE - 1, MAX_PAYLOAD_SIZE, MAX_PAYLOAD_SIZE + 1}

zeros(n) == [i \in 1..n |-> 0]     \* Buffer.alloc(n)

SendSized(c, type, n) ==
  \* await sendPacket(type, Buffer.alloc(n)) on the stream of c, in a try
  \* block as in performHandshake
  /\ conn[c].pc = "recvAuthRequest"
  /\ conn[c].socket = "open"
  /\ conn[c].peerSends = 0
  /\ Apply(c, sendPacket(World([conn[c] EXCEPT !.sized = n], activeConnections, events),
                          c, type, zeros(n), "sendPacket"))
  /\ UNCHANGED << serverVars, now, udpVars >>

SizedWritten(c) ==
  \* the write callback without an error: sendPacket resolves
  /\ conn[c].pc = "sendPacket"
  /\ conn[c].socket = "open"
  /\ conn' = [conn EXCEPT ![c].written = @ + 1, ![c].pc = "sent"]
  /\ UNCHANGED << serverVars, activeConnections, events, now, udpVars >>

PeerSized(c, type, n) ==
  \* the peer writes a signed packet whose payload has n bytes
  /\ conn[c].pc = "recvAuthRequest"
  /\ conn[c].peerSends = 0
  /\ masterKey # NullKey
  /\ conn' = [conn EXCEPT
                ![c].net = @ \o createPacket(type, zeros(n), now, masterKey),
                ![c].peerSends = @ + 1,
                ![c].peerLog = Append(@, [packet |-> [version |-> PROTOCOL_VERSION,
                                                      type |-> type,
                                                      payload |-> zeros(n),
                                                      signed |-> TRUE],
                                          key |-> masterKey,
                                          pc |-> conn[c].pc])]
  /\ UNCHANGED << serverVars, activeConnections, events, now, udpVars >>

SizesNext ==
  \/ StartCall
  \/ ListenOk
  \/ BindOk
  \/ Tick
  \/ Accept(1)
  \/ \E type \in {TUNNEL_DATA, ERROR} : \E n \in PayloadSizes : SendSized(1, type, n)
  \/ SizedWritten(1)
  \/ \E n \in PayloadSizes : PeerSized(1, KEEP_ALIVE, n)
  \/ \E n \in AlignedSizes(1) : Deliver(1, n)

Sizes == Init /\ [][SizesNext]_vars

(***************************************************************************)
(* Vocabulary of the properties.                                           *)
(***************************************************************************)
RecvStates == {"recvAuthRequest", "recvClientReady"}

\* a packet of this type was given to socket.write
Sent(c, type) == \E i \in 1..Len(conn[c].out) : readUInt8(conn[c].out[i], 1) = type

typesOf(out) == [i \in 1..Len(out) |-> readUInt8(out[i], 1)]

Registered(c) == mapHas(activeConnections, c)

\* the 'connection' notifications emitted for c
ConnectedCount(c) ==
  Len(SelectSeq(events, LAMBDA e : e.event = "connected" /\ e.clientId = c))

\* stop() has run and no start() has followed it
Stopped == tcpServer = "null" /\ startPc = "idle"

GoodRequest ==
  [version |-> PROTOCOL_VERSION, type |-> AUTH_REQUEST, payload |-> Credential, signed |-> TRUE]

GoodAck ==
  [version |-> PROTOCOL_VERSION, type |-> TUNNEL_DATA, payload |-> << >>, signed |-> TRUE]

TimedOut == Failure("Timeout recibiendo paquete")

\* the failures of the handshake that are not failures of the socket
ProtocolFailures ==
  { "Versión de protocolo incompatible", "Payload demasiado grande",
    "Firma de paquete inválida", "Esperaba AUTH_REQUEST",
    "Esperaba confirmación del cliente", "Token inválido",
    "Timeout recibiendo paquete" }

(***************************************************************************)
(* C1: in every reachable state the registry holds at most maxConnections  *)
(* entries.                                                                *)
(***************************************************************************)
C1_RegistryWithinCapacity == mapSize(activeConnections) <= maxConnections

(***************************************************************************)
(* C2: once stop() has been called, no handshake that was in flight        *)
(* registers a connection or emits a connected notification.               *)
(***************************************************************************)
C2_NoRegistrationAfterStop ==
  [][Stopped => \A c \in Clients :
                  /\ Registered(c)' => Registered(c)
                  /\ ConnectedCount(c)' = ConnectedCount(c)]_vars

(***************************************************************************)
(* C3: receivePacket yields the same result however the bytes are split    *)
(* into deliveries: when a well-formed packet, signed under the key in     *)
(* force, is the first thing the peer wrote and all the bytes in flight    *)
(* have been delivered to a handshake that has not failed, the first       *)
(* receive has yielded that packet.                                        *)
(***************************************************************************)
C3_SplitIndependent ==
  \A c \in Clients :
    LET k == conn[c]
    IN  (/\ Len(k.peerLog) >= 1
         /\ k.peerLog[1].packet.signed
         /\ k.peerLog[1].packet.version = PROTOCOL_VERSION
         /\ k.peerLog[1].key = masterKey
         /\ k.peerLog[1].pc = "recvAuthRequest"
         /\ k.net = << >>
         /\ k.socket = "open")
        => /\ Len(k.received) >= 1
           /\ k.received[1].packet.type = k.peerLog[1].packet.type
           /\ k.received[1].packet.payload = k.peerLog[1].packet.payload

(***************************************************************************)
(* C4: every handshake that has failed for a reason other than the socket  *)
(* has given an ERROR packet to the stream.                                *)
(***************************************************************************)
C4_ErrorPacketOnEveryFailure ==
  \A c \in Clients :
    (/\ conn[c].pc = "failed"
     /\ conn[c].result[1].error \in ProtocolFailures)
    => Sent(c, ERROR)

(***************************************************************************)
(* C5: a peer that writes a valid AUTH_REQUEST to the waiting handshake    *)
(* and, once the handshake waits for it, a valid acknowledgement, drives   *)
(* the handshake to the established outcome with one registration and one  *)
(* connected notification: once its bytes are all delivered and nothing    *)
(* has failed, the handshake is past its second receive.                   *)
(***************************************************************************)
C5_HappyPathEstablishes ==
  \A c \in Clients :
    LET k == conn[c]
    IN  (/\ k.peerLog = << [packet |-> GoodRequest, key |-> masterKey,
                            pc |-> "recvAuthRequest"],
                           [packet |-> GoodAck, key |-> masterKey,
                            pc |-> "recvClientReady"] >>
         /\ k.net = << >>
         /\ k.socket = "open")
        => /\ k.pc \in {"sendTunnelConfig", "established"}
           /\ k.pc = "established" => ConnectedCount(c) = 1

(***************************************************************************)
(* C6: the steps of a handshake occur in order and none is skipped:        *)
(* AUTH_RESPONSE is sent only after an AUTH_REQUEST was received and its   *)
(* credential resolved; the tunnel configuration only after AUTH_RESPONSE  *)
(* was sent and an acknowledgement received; the connection is registered  *)
(* only after the tunnel configuration was written without error.          *)
(***************************************************************************)
C6_StepsInOrder ==
  \A c \in Clients :
    LET k == conn[c]
        types == typesOf(k.out)
    IN  /\ Sent(c, AUTH_RESPONSE) =>
             /\ types[1] = AUTH_RESPONSE
             /\ Len(k.received) >= 1
             /\ k.received[1].packet.type = AUTH_REQUEST
             /\ k.authResult.success
        /\ Sent(c, TUNNEL_DATA) =>
             /\ types = << AUTH_RESPONSE, TUNNEL_DATA >>
             /\ k.written >= 1
             /\ Len(k.received) = 2
             /\ k.received[2].packet.type = TUNNEL_DATA
        /\ (Registered(c) \/ ConnectedCount(c) > 0) =>
             /\ types = << AUTH_RESPONSE, TUNNEL_DATA >>
             /\ k.written = 2

C6_Registered == conn[1].pc = "established" /\ Registered(1)

(***************************************************************************)
(* C7: the handshake acts only on packets whose signature verified under   *)
(* the key in force: every packet it was handed verifies, every send,      *)
(* credential resolution and registration follows such a packet, and a     *)
(* peer whose packets all carry a wrong signature gets nothing but a       *)
(* failed handshake.                                                       *)
(***************************************************************************)
C7_ActsOnlyOnVerified ==
  \A c \in Clients :
    LET k == conn[c]
    IN  /\ \A i \in 1..Len(k.received) :
             verifyHmac(k.received[i].headerData \o k.received[i].packet.payload,
                        k.received[i].packet.signature, k.received[i].key)
        /\ (k.out # << >> \/ k.authResult # Failure("")) => Len(k.received) >= 1
        /\ (Sent(c, TUNNEL_DATA) \/ ConnectedCount(c) > 0) => Len(k.received) >= 2
        /\ (\A i \in 1..Len(k.peerLog) : ~k.peerLog[i].packet.signed) =>
             /\ k.received = << >>
             /\ k.out = << >>
             /\ ConnectedCount(c) = 0
        /\ (k.result # << >> /\ k.result[1].error = "Firma de paquete inválida") =>
             /\ k.pc = "failed"
             /\ k.socket # "open"
             /\ ~Registered(c)

C7_ForgedPacketRead ==
  /\ Len(conn[1].peerLog) >= 1
  /\ ~conn[1].peerLog[1].packet.signed
  /\ conn[1].result = << Failure("Firma de paquete inválida") >>

(***************************************************************************)
(* C8: at either receive step a verified packet of another type than the   *)
(* expected one fails the handshake with the unexpected-type error of that *)
(* step; the packet that step would send is not sent and the connection is *)
(* not registered.                                                         *)
(***************************************************************************)
C8_UnexpectedTypeFails ==
  \A c \in Clients :
    LET k == conn[c]
    IN  /\ (Len(k.received) >= 1 /\ k.received[1].packet.type # AUTH_REQUEST) =>
             /\ k.result = << Failure("Esperaba AUTH_REQUEST") >>
             /\ k.pc = "failed"
             /\ k.out = << >>
             /\ ~Registered(c) /\ ConnectedCount(c) = 0
        /\ (Len(k.received) >= 2 /\ k.received[2].packet.type # TUNNEL_DATA) =>
             /\ k.result = << Failure("Esperaba confirmación del cliente") >>
             /\ k.pc = "failed"
             /\ ~Sent(c, TUNNEL_DATA)
             /\ ~Registered(c) /\ ConnectedCount(c) = 0

C8_WrongTypeAtSecondStep ==
  /\ Len(conn[1].received) = 2
  /\ conn[1].received[2].packet.type # TUNNEL_DATA

(***************************************************************************)
(* C9: an AUTH_REQUEST with an empty credential fails the handshake with   *)
(* the authentication-rejected outcome: the result, once the handshake has *)
(* returned, is the rejection of the credential, no AUTH_RESPONSE is sent, *)
(* no userId is produced and nothing is registered; a handshake succeeds   *)
(* only with a non-empty userId.                                           *)
(***************************************************************************)
C9_EmptyCredentialRejected ==
  \A c \in Clients :
    LET k == conn[c]
    IN  /\ (/\ Len(k.received) >= 1
            /\ k.received[1].packet.type = AUTH_REQUEST
            /\ k.received[1].packet.payload = << >>) =>
             /\ k.result # << >> => k.result = << Failure("Token inválido") >>
             /\ ~Sent(c, AUTH_RESPONSE)
             /\ k.userId = << >> /\ ~k.isAuthenticated
             /\ ~Registered(c) /\ ConnectedCount(c) = 0
        /\ (k.result # << >> /\ k.result[1].success) => k.result[1].userId # << >>

(***************************************************************************)
(* C10: when the receive timer fires the handshake fails with the timeout  *)
(* error; a handshake that failed so has its stream ended and is never     *)
(* registered.                                                             *)
(***************************************************************************)
C10_TimeoutFails ==
  /\ [](\A c \in Clients :
          conn[c].result = << TimedOut >> =>
            /\ conn[c].pc = "failed"
            /\ conn[c].socket # "open"
            /\ ~Registered(c) /\ ConnectedCount(c) = 0)
  /\ [][\A c \in Clients :
          (conn[c].pc \in RecvStates /\ Timeout(c)) =>
            conn'[c].result = << TimedOut >>]_vars

C10_SilentPeerTimedOut ==
  /\ conn[1].peerLog = << >>
  /\ conn[1].result = << TimedOut >>
  /\ conn[1].socket = "ended"

(***************************************************************************)
(* C11: a failed handshake is terminal: no later step of that connection   *)
(* gives a packet to the stream, registers the connection or emits a       *)
(* connected notification, and the handshake stays failed.                 *)
(***************************************************************************)
C11_FailedIsTerminal ==
  [][\A c \in Clients :
       conn[c].pc = "failed" =>
         /\ conn'[c].pc = "failed"
         /\ conn'[c].result = conn[c].result
         /\ conn'[c].out = conn[c].out
         /\ ~Registered(c)'
         /\ ConnectedCount(c)' = ConnectedCount(c)]_vars

\* bytes written after the timeout were read by the listeners still attached
C11_LateBytesAfterFailure ==
  /\ conn[1].pc = "failed"
  /\ conn[1].result = << TimedOut >>
  /\ Len(conn[1].peerLog) >= 1
  /\ conn[1].peerLog[1].pc = "failed"
  /\ conn[1].reader.stage = "payload"

(***************************************************************************)
(* C12: a connection accepted while the registry holds maxConnections      *)
(* entries is rejected: its stream is ended, the registry and the          *)
(* notifications are unchanged, and no packet is ever received from it or  *)
(* sent to it.                                                             *)
(***************************************************************************)
C12_RejectedAtCapacity ==
  /\ [][\A c \in Clients :
          (/\ conn[c].socket = "none" /\ conn'[c].socket # "none"
           /\ mapSize(activeConnections) >= maxConnections)
          => /\ conn'[c].pc = "rejected"
             /\ conn'[c].socket = "ended"
             /\ activeConnections' = activeConnections
             /\ events' = events]_vars
  /\ [](\A c \in Clients :
          conn[c].pc = "rejected" =>
            /\ conn[c].socket # "open"
            /\ conn[c].reader = NoReader /\ ~conn[c].timer
            /\ conn[c].received = << >>
            /\ conn[c].out = << >>
            /\ ~Registered(c) /\ ConnectedCount(c) = 0)

\* a peer rejected by a full registry wrote its AUTH_REQUEST all the same,
\* and the bytes have arrived
C12_RejectedPeerWrote ==
  \E c \in Clients :
    /\ conn[c].pc = "rejected"
    /\ Len(conn[c].peerLog) = 1
    /\ conn[c].net = << >>
    /\ \E d \in Clients : d # c /\ Registered(d)

(***************************************************************************)
(* Vocabulary of the datagram properties.                                  *)
(***************************************************************************)
\* this step is the receipt of a datagram
Received == udpLog'.count = udpLog.count + 1

Sender == udpLog'.last.clientId

Message == udpLog'.last.message

(***************************************************************************)
(* C13: a datagram whose sender has no registry entry is dropped: the      *)
(* registry and every entry in it are unchanged, decrypt is not called and *)
(* the payload sink is not invoked.                                        *)
(***************************************************************************)
C13_UnregisteredDropped ==
  [][(Received /\ ~mapHas(activeConnections, Sender)) =>
       /\ activeConnections' = activeConnections
       /\ udpLog'.last.decrypt = "none"
       /\ tunnelData' = tunnelData
       /\ events' = events]_vars

\* a datagram that would decrypt came from an unregistered sender while
\* another sender was registered
C13_SealedFromStranger ==
  /\ udpLog.count >= 1
  /\ udpLog.last.decrypt = "none"
  /\ decrypt(udpLog.last.message, masterKey).ok
  /\ activeConnections # << >>

(***************************************************************************)
(* C14: a datagram of a registered sender that fails decryption is dropped *)
(* and the session stays: the registry entry (status connected,            *)
(* bytesReceived, lastActivity) is unchanged, nothing is notified and the  *)
(* payload sink is not invoked.                                            *)
(***************************************************************************)
C14_UndecryptableDropped ==
  [][(/\ Received
      /\ mapHas(activeConnections, Sender)
      /\ ~decrypt(Message, masterKey).ok) =>
       /\ activeConnections' = activeConnections
       /\ mapGet(activeConnections', Sender).status = "connected"
       /\ mapGet(activeConnections', Sender).connected
       /\ events' = events
       /\ tunnelData' = tunnelData]_vars

\* a registered sender's datagram failed to decrypt, the clock having
\* moved since it registered
C14_TamperedFromRegistered ==
  /\ udpLog.count >= 1
  /\ udpLog.last.decrypt = "threw"
  /\ mapHas(activeConnections, udpLog.last.clientId)
  /\ now > mapGet(activeConnections, udpLog.last.clientId).connectedAt

(***************************************************************************)
(* C15: a datagram of a registered sender that decrypts adds its length to *)
(* the sender's bytesReceived, sets its lastActivity to the time of        *)
(* receipt, hands the sender's clientId and the decrypted bytes to the     *)
(* payload sink once, and changes nothing else.                            *)
(***************************************************************************)
C15_DecryptedAccounted ==
  [][(/\ Received
      /\ mapHas(activeConnections, Sender)
      /\ decrypt(Message, masterKey).ok) =>
       /\ Len(activeConnections') = Len(activeConnections)
       /\ \A i \in 1..Len(activeConnections) :
            IF activeConnections[i].clientId = Sender
            THEN activeConnections'[i] =
                   [activeConnections[i] EXCEPT
                      !.bytesReceived = @ + Len(Message), !.lastActivity = now]
            ELSE activeConnections'[i] = activeConnections[i]
       /\ tunnelData' = Append(tunnelData,
                               [clientId |-> Sender,
                                data |-> decrypt(Message, masterKey).data])
       /\ events' = events
       /\ conn' = conn]_vars

\* the second of two registered senders had its sealed payload delivered
\* to the sink, later than it registered
C15_PayloadDelivered ==
  /\ Len(activeConnections) = 2
  /\ udpLog.last.decrypt = "returned"
  /\ udpLog.last.clientId = activeConnections[2].clientId
  /\ activeConnections[2].bytesReceived = Len(udpLog.last.message)
  /\ activeConnections[2].lastActivity > activeConnections[2].connectedAt
  /\ tunnelData = << [clientId |-> udpLog.last.clientId, data |-> Plain] >>

(***************************************************************************)
(* C16: when the stream of a registered connection closes or errors, the   *)
(* connection is removed from the registry and one disconnect notification *)
(* with its clientId and userId is emitted, in the step of that event; no  *)
(* entry is in the registry for a stream that has closed or failed.        *)
(***************************************************************************)
C16_ClosedStreamRemoved ==
  /\ [][\A c \in Clients :
          (/\ Registered(c)
           /\ conn[c].socket \in {"open", "ended"}
           /\ conn'[c].socket \in {"errored", "closed"})
          => /\ ~Registered(c)'
             /\ Len(events') = Len(events) + 1
             /\ events'[Len(events')].event = "disconnected"
             /\ events'[Len(events')].clientId = c
             /\ events'[Len(events')].userId = mapGet(activeConnections, c).userId
             /\ events'[Len(events')].reason \in {"Client disconnected", "Socket error"}]_vars
  /\ [](\A c \in Clients : Registered(c) => conn[c].socket \in {"open", "ended"})

\* the stream of a connection that had registered has closed
C16_RegisteredStreamClosed ==
  \E c \in Clients :
    /\ conn[c].pc = "established"
    /\ conn[c].socket = "closed"
    /\ events # << >>
    /\ notice(events[Len(events)]) = [event |-> "disconnected", clientId |-> c,
                              userId |-> conn[c].userId,
                              reason |-> "Client disconnected"]

(***************************************************************************)
(* stop().                                                                 *)
(***************************************************************************)
\* the steps in which stop() runs: the call itself and the two failures of
\* start() that call it
StopReturns == Stop \/ ListenError \/ BindError

\* the notifications of the connection c among events[from..to]
Disconnections(evs, from, to, c) ==
  { i \in from..to : evs[i].event = "disconnected" /\ evs[i].clientId = c }

\* C17: when stop() returns the registry is empty, the listener and the
\* datagram socket are closed, the server reports not running, and every
\* connection registered at the call has received exactly one disconnect
\* notification, with the shutdown reason (and nobody else received one);
\* no connection is ever notified of a disconnection twice.
C17_StopClearsAndNotifies ==
  /\ [][StopReturns =>
          /\ activeConnections' = << >>
          /\ tcpServer' = "null"
          /\ udpSocket' = "null"
          /\ isRunning' = FALSE
          /\ SubSeq(events', 1, Len(events)) = events
          /\ Len(events') = Len(events) + mapSize(activeConnections)
          /\ \A c \in Clients :
                Registered(c) =>
                  \E i \in Len(events) + 1..Len(events') :
                    /\ Disconnections(events', Len(events) + 1, Len(events'), c) = {i}
                    /\ events'[i].userId = mapGet(activeConnections, c).userId
                    /\ events'[i].reason = "Server shutdown"]_vars
  /\ [](\A c \in Clients :
          Cardinality(Disconnections(events, 1, Len(events), c)) <= 1)

\* stop() has returned after notifying a registered connection, whose
\* stream has closed since
C17_StoppedWithRegistered ==
  /\ Stopped /\ ~isRunning /\ udpSocket = "null" /\ activeConnections = << >>
  /\ \E c \in Clients :
        /\ conn[c].pc = "established"
        /\ conn[c].socket = "closed"
        /\ \E i \in 1..Len(events) :
              notice(events[i]) = [event |-> "disconnected", clientId |-> c,
                           userId |-> conn[c].userId, reason |-> "Server shutdown"]

(***************************************************************************)
(* A failing ERROR write.                                                  *)
(***************************************************************************)
\* the ERROR packet was handed to the stream and its write reported a failure
ErrorSendFailed(c) ==
  /\ conn[c].result # << >>
  /\ Sent(c, ERROR)
  /\ conn[c].written < Len(conn[c].out)

\* C18: when the write of the ERROR packet fails while a handshake failure
\* is being reported, the handshake still returns the primary failure, the
\* rejection found by verifyAuthentication, and not the send error.
C18_SendFailureSwallowed ==
  \A c \in Clients :
    ErrorSendFailed(c) => conn[c].result[1] = conn[c].authResult

(***************************************************************************)
(* The key across start() and stop().                                      *)
(***************************************************************************)
\* the packet bytes, written by sendPacket under an earlier key or the
\* present one, verify under the present key
StillVerifies(bytes) ==
  verifyHmac(slice(bytes, 0, Len(bytes) - SIGNATURE_SIZE),
             slice(bytes, Len(bytes) - SIGNATURE_SIZE, Len(bytes)),
             masterKey)

\* C19: once initialize() has drawn the key, the key used by hmac,
\* verifyHmac, encrypt and decrypt never changes, whatever start() and
\* stop() calls follow, and every packet signed so far still verifies.
C19_KeyFixedAfterInitialize ==
  /\ [][masterKey # NullKey => masterKey' = masterKey]_vars
  /\ [](\A c \in Clients : \A i \in 1..Len(conn[c].out) :
          StillVerifies(conn[c].out[i]))

(***************************************************************************)
(* The codec round trip.                                                   *)
(***************************************************************************)
\* C20: for every packet type and every payload, once the bytes produced
\* by createPacket have all reached receivePacket under the same key,
\* receivePacket has returned a packet of the same type with the same
\* payload.
C20_DecodeOfEncode ==
  \A c \in Clients :
    (/\ conn[c].peerLog # << >>
     /\ conn[c].peerLog[1].key = masterKey
     /\ conn[c].net = << >>)
    => /\ conn[c].received # << >>
       /\ LET sent == conn[c].peerLog[1].packet
              packet == conn[c].received[1].packet
          IN  /\ packet.type = sent.type
              /\ packet.length = Len(sent.payload)
              /\ packet.payload = sent.payload

(***************************************************************************)
(* A packet with one bit flipped.                                          *)
(***************************************************************************)
\* the byte, counted from 0, that holds the flipped bit
FlippedByte(c) == conn[c].flipped \div 8

HeaderCompleted(c) ==
  /\ conn[c].pc \in RecvStates
  /\ conn[c].reader.stage = "header"
  /\ conn'[c].reader.stage # "header"
  /\ conn'[c].socket = conn[c].socket
  /\ Len(conn'[c].net) < Len(conn[c].net)

\* the 16 bytes that step gives to the callback of the header read
HeaderRead(c) ==
  conn[c].reader.buffer
    \o SubSeq(conn[c].net, 1, HEADER_SIZE - Len(conn[c].reader.buffer))

\* C22: a packet whose version byte is not PROTOCOL_VERSION is rejected
\* with the incompatible-version error as soon as its header is read, with
\* no read of its payload and signature and no signature check, whether
\* its signature verifies or not.
C22_VersionGateFirst ==
  [][\A c \in Clients :
       (HeaderCompleted(c) /\ readUInt8(HeaderRead(c), 0) # PROTOCOL_VERSION)
       => /\ conn'[c].result = << Failure("Versión de protocolo incompatible") >>
          /\ conn'[c].reader = NoReader
          /\ ~conn'[c].timer
          /\ conn'[c].received = conn[c].received
          /\ conn'[c].pc = "failed"]_vars

\* a packet of another version with a signature that verifies has been
\* rejected
C22_SignedOtherVersion ==
  \E c \in Clients :
    /\ conn[c].peerLog # << >>
    /\ conn[c].peerLog[1].packet.version # PROTOCOL_VERSION
    /\ conn[c].peerLog[1].packet.signed
    /\ conn[c].peerLog[1].key = masterKey
    /\ conn[c].result = << Failure("Versión de protocolo incompatible") >>

(***************************************************************************)
(* The size limit.                                                         *)
(***************************************************************************)
\* C23: sendPacket with a payload of MAX_PAYLOAD_SIZE + 1 bytes fails with
\* the payload-too-large error and gives nothing to the stream, and with a
\* payload of up to MAX_PAYLOAD_SIZE bytes it writes the packet and
\* succeeds; receivePacket rejects a header that declares more than
\* MAX_PAYLOAD_SIZE bytes and reads and returns a packet that declares
\* MAX_PAYLOAD_SIZE bytes.
C23_SizeLimit ==
  /\ [](\A c \in Clients :
          /\ conn[c].sized > MAX_PAYLOAD_SIZE =>
                /\ conn[c].out = << >>
                /\ conn[c].result = << Failure("Payload demasiado grande") >>
          /\ conn[c].sized \in 0..MAX_PAYLOAD_SIZE =>
                /\ Len(conn[c].out) = 1
                /\ Len(conn[c].out[1]) = HEADER_SIZE + conn[c].sized + SIGNATURE_SIZE
                /\ readUInt32BE(conn[c].out[1], 8) = conn[c].sized
                /\ conn[c].result = << >>
                /\ conn[c].pc \in {"sendPacket", "sent"})
  /\ [][\A c \in Clients :
          (HeaderCompleted(c) /\ readUInt8(HeaderRead(c), 0) = PROTOCOL_VERSION) =>
            IF readUInt32BE(HeaderRead(c), 8) > MAX_PAYLOAD_SIZE
            THEN /\ conn'[c].result = << Failure("Payload demasiado grande") >>
                 /\ conn'[c].reader = NoReader
            ELSE /\ conn'[c].result = << >>
                 /\ conn'[c].reader =
                      readBytes(readUInt32BE(HeaderRead(c), 8) + SIGNATURE_SIZE,
                                "payload", HeaderRead(c))]_vars
  /\ [](\A c \in Clients :
          (/\ conn[c].peerLog # << >>
           /\ conn[c].net = << >>)
          => IF Len(conn[c].peerLog[1].packet.payload) > MAX_PAYLOAD_SIZE
             THEN /\ conn[c].received = << >>
                  /\ conn[c].result = << Failure("Payload demasiado grande") >>
             ELSE /\ conn[c].received # << >>
                  /\ conn[c].received[1].packet.length
                       = Len(conn[c].peerLog[1].packet.payload)
                  /\ conn[c].received[1].packet.payload
                       = conn[c].peerLog[1].packet.payload)

\* a send of MAX_PAYLOAD_SIZE + 1 bytes has failed
C23_OversizedSendFailed ==
  /\ conn[1].sized = MAX_PAYLOAD_SIZE + 1
  /\ conn[1].peerSends = 0
  /\ conn[1].received = << >>
  /\ conn[1].out = << >>
  /\ conn[1].result = << Failure("Payload demasiado grande") >>

(***************************************************************************)
(* A stream that ends inside a packet.                                     *)
(***************************************************************************)
\* this step is the 'error' or the 'close' of the stream of c while its
\* receivePacket is reading the payload and the signature
EndedInPayload(c) ==
  /\ conn[c].pc \in RecvStates
  /\ conn[c].reader.stage = "payload"
  /\ conn[c].socket = "open"
  /\ conn'[c].socket \in {"errored", "closed"}

\* C24: when the stream ends after a header with fewer than length + 32
\* bytes read, the receive fails with the error of the truncated read,
\* which is not the invalid-signature error, and no signature is checked:
\* nothing is returned.
C24_TruncatedNotInvalid ==
  [][\A c \in Clients :
       EndedInPayload(c) =>
         /\ conn'[c].result = << Failure("Error leyendo payload") >>
         /\ conn'[c].result # << Failure("Firma de paquete inválida") >>
         /\ conn'[c].received = conn[c].received
         /\ conn'[c].reader = NoReader
         /\ ~conn'[c].timer]_vars

\* the stream has closed after the header and a part of the signature
C24_ClosedInsidePacket ==
  \E c \in Clients :
    /\ conn[c].peerSends = 1
    /\ conn[c].socket = "closed"
    /\ conn[c].received = << >>
    /\ conn[c].result = << Failure("Error leyendo payload") >>

(***************************************************************************)
(* encrypt and decrypt.                                                    *)
(***************************************************************************)
\* the three regions of a blob
BlobIv(blob) == slice(blob, 0, ivLength)
BlobTag(blob) == slice(blob, ivLength, ivLength + tagLength)
BlobData(blob) == slice(blob, ivLength + tagLength, Len(blob))

\* C25: decrypt gives back the plaintext of every blob encrypt returned
\* under the key in force, and the blob is the iv, then the 16-byte tag of
\* the ciphertext, then a ciphertext as long as the plaintext.
C25_DecryptOfEncrypt ==
  /\ (/\ cipherLog.opened.index > 0
      /\ cipherLog.opened.flip < 0
      /\ cipherLog.opened.key = cipherLog.sealed[cipherLog.opened.index].key)
     => cipherLog.opened.result
          = Returned(cipherLog.sealed[cipherLog.opened.index].data)
  /\ \A i \in 1..Len(cipherLog.sealed) :
       LET e == cipherLog.sealed[i]
       IN  /\ Len(e.blob) = ivLength + tagLength + Len(e.data)
           /\ BlobIv(e.blob) = e.iv
           /\ BlobTag(e.blob) = getAuthTag(e.key, e.iv, BlobData(e.blob))

\* a two-byte plaintext has come back from decrypt
C25_PlaintextBack ==
  /\ cipherLog.opened.index > 0
  /\ cipherLog.opened.flip < 0
  /\ cipherLog.sealed[cipherLog.opened.index].data = << 255, 0 >>
  /\ cipherLog.opened.result = Returned(<< 255, 0 >>)

\* C26: of any two calls of encrypt under one key, the nonces differ, by
\* construction: the nonce the cipher runs with and the nonce written at
\* the head of the blob; two calls with the same plaintext give
\* different blobs.
C26_NonceNeverReused ==
  \A i, j \in 1..Len(cipherLog.sealed) :
    (i < j /\ cipherLog.sealed[i].key = cipherLog.sealed[j].key) =>
      /\ cipherLog.sealed[i].nonce # cipherLog.sealed[j].nonce
      /\ BlobIv(cipherLog.sealed[i].blob) # BlobIv(cipherLog.sealed[j].blob)
      /\ cipherLog.sealed[i].data = cipherLog.sealed[j].data
           => cipherLog.sealed[i].blob # cipherLog.sealed[j].blob

\* the flipped bit lies in the iv, in the tag or in the ciphertext
FlipRegion ==
  IF cipherLog.opened.flip < 8 * ivLength THEN "iv"
  ELSE IF cipherLog.opened.flip < 8 * (ivLength + tagLength) THEN "tag"
  ELSE "data"

\* C27: decrypt of a blob with one bit flipped, wherever the bit lies,
\* throws and returns no plaintext byte.
C27_FlippedBlobThrows ==
  (cipherLog.opened.index > 0 /\ cipherLog.opened.flip >= 0)
  => /\ ~cipherLog.opened.result.ok
     /\ cipherLog.opened.result.data = << >>

\* decrypt has thrown on a blob of two ciphertext bytes with a bit of its
\* last byte flipped
C27_CiphertextBitFlipped ==
  /\ cipherLog.opened.index > 0
  /\ cipherLog.opened.flip = 8 * (ivLength + tagLength + 2) - 1
  /\ FlipRegion = "data"
  /\ cipherLog.opened.result = Thrown

(***************************************************************************)
(* getServerLoad.                                                          *)
(***************************************************************************)
getServerLoad ==
  \* Math.round((activeConnections.size / maxConnections) * 100), halves up
  (200 * mapSize(activeConnections) + maxConnections) \div (2 * maxConnections)

\* C28: in every reachable state the load is an integer from 0 to 100, the
\* rounded percentage of maxConnections that the registry entries occupy.
C28_LoadIsPercentage ==
  /\ getServerLoad \in 0..100
  /\ 2 * maxConnections * getServerLoad <= 200 * mapSize(activeConnections) + maxConnections
  /\ 2 * maxConnections * getServerLoad > 200 * mapSize(activeConnections) - maxConnections

(***************************************************************************)
(* Datagrams that fail to decrypt.                                         *)
(***************************************************************************)
\* all that the server holds or has emitted: its fields, the registry with
\* every entry's statistics, the notifications and the payloads handed on
serverState ==
  << isRunning, tcpServer, udpSocket, masterKey, startPc, activeConnections,
     events, tunnelData >>

\* C29: every datagram of a registered sender that fails decryption is
\* counted: a count held in the server state goes up by one, so the
\* server state after such a datagram differs from the state before it.
C29_FailureCounted ==
  [][(/\ Received
      /\ mapHas(activeConnections, Sender)
      /\ ~decrypt(Message, masterKey).ok)
     => serverState' # serverState]_vars

(***************************************************************************)
(* Packets in arrival order.                                               *)
(***************************************************************************)
\* C30: every packet the peer sends on its stream is processed, in arrival
\* order, also when its bytes arrive while no receive is pending: once
\* the valid credential and the valid acknowledgement are both delivered
\* and AUTH_RESPONSE is written, the handshake has received both, in that
\* order.
C30_InOrderNoneLost ==
  \A c \in Clients :
    (/\ Len(conn[c].peerLog) = 2
     /\ \A i \in 1..2 : /\ conn[c].peerLog[i].packet.signed
                        /\ conn[c].peerLog[i].packet.version = PROTOCOL_VERSION
                        /\ conn[c].peerLog[i].key = masterKey
     /\ conn[c].peerLog[1].packet.type = AUTH_REQUEST
     /\ conn[c].peerLog[1].packet.payload = Credential
     /\ conn[c].peerLog[2].packet.type = TUNNEL_DATA
     /\ conn[c].net = << >>
     /\ conn[c].socket = "open"
     /\ conn[c].written >= 1)
    => /\ Len(conn[c].received) = 2
       /\ \A i \in 1..2 :
            /\ conn[c].received[i].packet.type = conn[c].peerLog[i].packet.type
            /\ conn[c].received[i].packet.payload = conn[c].peerLog[i].packet.payload

Notified(kind, c, n) ==
  { i \in 1..n : events[i].event = kind /\ events[i].clientId = c }

\* C32: a disconnect notification for a clientId is emitted only after a
\* connected notification for it, and at most one for each registration:
\* at every point of the notification sequence the disconnects of a client
\* do not outnumber its connects, and while it is registered they are
\* fewer; a stream that emits error and then close, or that closes after
\* stop(), adds no second one.
C32_DisconnectsMatchConnects ==
  /\ [](\A c \in Clients :
          /\ \A n \in 0..Len(events) :
                Cardinality(Notified("disconnected", c, n))
                  <= Cardinality(Notified("connected", c, n))
          /\ Registered(c) =>
                Cardinality(Notified("disconnected", c, Len(events)))
                  < Cardinality(Notified("connected", c, Len(events))))
  /\ [][\A c \in Clients :
          (conn[c].socket \in {"errored", "closed"} \/ ~Registered(c))
          => Notified("disconnected", c, Len(events))'
               = Notified("disconnected", c, Len(events))]_vars

\* a connection that registered, was disconnected by stop() and whose
\* stream then failed and closed
C32_ErrorAndCloseAfterStop ==
  \E c \in Clients :
    /\ conn[c].pc = "established"
    /\ conn[c].socket = "closed"
    /\ \E i \in 1..Len(events) :
         /\ Notified("disconnected", c, Len(events)) = {i}
         /\ events[i].reason = "Server shutdown"

(***************************************************************************)
(* Connections that never register.                                        *)
(***************************************************************************)
\* the handshake of c has failed, or c was turned away at capacity
Unadmitted(c) == conn[c].pc \in {"failed", "rejected"}

C34_DisconnectedNotSeen ==
  \A i \in 1..Len(events) :
    events[i].event = "disconnected" =>
      /\ ~mapHas(events[i].seen, events[i].clientId)
      /\ \A j \in 1..Len(events[i].seen) : events[i].seen[j].status = "connected"

(***************************************************************************)
(* start() on a running server.                                            *)
(***************************************************************************)
\* C35: start() called on a server that is already running fails with an
\* error and changes nothing: the server keeps running, the key, the
\* listener, the datagram socket and the registry are as before, nothing
\* is notified and no connection is touched.
C35_StartOnRunningChangesNothing ==
  /\ [][(isRunning /\ (StartCall \/ SecondStartCall))
        => /\ isRunning'
           /\ starts.second' \in {starts.second, "threw"}
           /\ UNCHANGED << masterKey, tcpServer, udpSocket, startPc,
                           activeConnections, events, conn >>]_vars
  /\ [][(isRunning /\ SecondStartCall) => starts.second' = "threw"]_vars

\* the second caller's start() has thrown on a running server that holds a
\* registered connection
C35_ThrewWhileServing ==
  /\ starts.second = "threw"
  /\ isRunning /\ tcpServer = "listening" /\ udpSocket = "bound"
  /\ \E c \in Clients : Registered(c) /\ conn[c].socket = "open"

(***************************************************************************)
(* Overlapping calls of start().                                           *)
(***************************************************************************)
\* the steps in which a start() fails: its catch has run stop()
StartFails == InitializeError \/ ListenError \/ BindError \/ SecondListenError

\* C36: for any interleaving of start() calls, a second one issued while
\* the first awaits its listen or its bind included: at most one start()
\* succeeds, at most one stream listener and one datagram socket are open,
\* and a failing start() never closes or replaces the listener or the
\* socket of a start() that succeeds: a server that a start() has made
\* running has that start()'s listener as this.tcpServer, listening, and
\* its datagram socket bound, and no failing start() runs its stop() on it.
C36_OneStartWins ==
  /\ [][BindOk => ~isRunning]_vars
  /\ [](~(tcpServer = "listening" /\ starts.displaced = "listening"))
  /\ [](isRunning =>
          /\ tcpServer = "listening" /\ starts.displaced = "none"
          /\ udpSocket = "bound")
  /\ [][StartFails => ~isRunning]_vars

(***************************************************************************)
(* A start() that fails.                                                   *)
(***************************************************************************)
\* C37: when start() fails, at the key initialization, the listen or the
\* bind, the error reaches the caller and the server ends not running,
\* with no listener, no datagram socket and an empty registry.
C37_FailedStartLeavesNothing ==
  [][StartFails =>
       /\ ~isRunning'
       /\ tcpServer' = "null" /\ starts.displaced' = "none"
       /\ udpSocket' = "null"
       /\ activeConnections' = << >>
       /\ (SecondListenError => starts.second' = "failed")]_vars

(***************************************************************************)
(* isClientAuthenticated() and getUserId().                                *)
(***************************************************************************)
isClientAuthenticated(c) == conn[c].isAuthenticated

getUserId(c) == conn[c].userId

\* C38: isClientAuthenticated() is true only when all five steps of the
\* handshake have completed (the request received and accepted, the
\* response written, the acknowledgement received, the tunnel
\* configuration written), and then getUserId() is the userId of the
\* result, which is not empty; a failed handshake result has an empty
\* userId and leaves isClientAuthenticated() false.
C38_AuthenticatedOnlyAfterFiveSteps ==
  \A c \in Clients :
    /\ isClientAuthenticated(c) =>
         /\ Len(conn[c].received) = 2
         /\ conn[c].received[1].packet.type = AUTH_REQUEST
         /\ conn[c].authResult.success
         /\ conn[c].received[2].packet.type = TUNNEL_DATA
         /\ typesOf(conn[c].out) = << AUTH_RESPONSE, TUNNEL_DATA >>
         /\ conn[c].written = 2
         /\ conn[c].result = << Success(getUserId(c)) >>
         /\ getUserId(c) # << >>
    /\ (conn[c].result # << >> /\ ~conn[c].result[1].success) =>
         /\ conn[c].result[1].userId = << >>
         /\ ~isClientAuthenticated(c)
         /\ getUserId(c) = << >>

\* a handshake that has returned success
C38_Authenticated ==
  /\ isClientAuthenticated(1)
  /\ conn[1].result # << >> /\ conn[1].result[1].success
  /\ includes(getUserId(1), Utf8User)

====
